---- MODULE Spec2Model ----
(***************************************************************************)
(* Model of the CodeWise static-analysis engine (AnalysisEngine in         *)
(* src/analysis/SyntaxDetector.ts) and of the two job processors that run  *)
(* it (src/jobs/analysisWorker.ts, src/websocket/analysisSocket.ts).       *)
(*                                                                         *)
(* The specifications share the variables:                                 *)
(*   SpecFile     one analyzeFile call, every combination of collaborator  *)
(*                outcomes;                                                *)
(*   SpecEngine   whole analyzeCodebase runs over small file trees;        *)
(*   SpecProgress the progress arithmetic of analyzeCodebase for runs of   *)
(*                up to MaxProgressFiles files;                            *)
(*   SpecWorker   one execution of a job processor around a run.           *)
(***************************************************************************)
EXTENDS Integers, Sequences, FiniteSets, TLC

Null == "null"

\* the null of a variable that otherwise holds an object
Nil == [nil |-> TRUE]

(***************************************************************************)
(* JavaScript numbers.  (i + 1) / totalFiles and the product with 100 are  *)
(* IEEE-754 doubles: each operation is rounded to MantissaBits significant *)
(* bits, ties to even.  A double is [m, e]: m the significand as a         *)
(* sequence of bits, most significant first, m[1] = 1, and e the exponent  *)
(* of m[1], so the value is 1.m[2]m[3]... * 2^e.                           *)
(***************************************************************************)
MantissaBits == 53

\* digits per limb: long division and multiplication work on limbs of this
\* many digits so that every intermediate value fits a 32-bit integer
LimbBits == 18

RECURSIVE Pow2(_)
Pow2(n) == IF n = 0 THEN 1 ELSE 2 * Pow2(n - 1)

Pow2Table == [n \in 0..LimbBits |-> Pow2(n)]

RECURSIVE IntBits(_)
IntBits(q) == IF q = 0 THEN <<>> ELSE IntBits(q \div 2) \o <<q % 2>>

\* the n-digit binary representation of v, zero padded, n <= LimbBits
FixedBits(v, n) == [j \in 1..n |-> (v \div Pow2Table[n - j]) % 2]

RECURSIVE SumSeq(_)
SumSeq(sq) == IF sq = <<>> THEN 0 ELSE sq[1] + SumSeq(Tail(sq))

\* the integer a digit string of at most LimbBits digits stands for
BitsToInt(b) == SumSeq([k \in 1..Len(b) |-> b[k] * Pow2Table[Len(b) - k]])

\* what is left of r/den after n binary digits, for 0 <= r < den < 2^13
RECURSIVE DivRem(_, _, _)
DivRem(r, den, n) ==
  IF n <= 0 THEN r
  ELSE LET c == IF n < LimbBits THEN n ELSE LimbBits
       IN  DivRem((r * Pow2Table[c]) % den, den, n - c)

\* the first n digits of the binary expansion of r/den, for 0 <= r < den < 2^13
RECURSIVE DivDigits(_, _, _)
DivDigits(r, den, n) ==
  IF n <= 0 THEN <<>>
  ELSE LET c == IF n < LimbBits THEN n ELSE LimbBits
           v == r * Pow2Table[c]
       IN  FixedBits(v \div den, c) \o DivDigits(v % den, den, n - c)

\* number of zero digits before the first one in the expansion of r/den
RECURSIVE LeadZeros(_, _)
LeadZeros(r, den) == IF 2 * r >= den THEN 0 ELSE 1 + LeadZeros(2 * r, den)

\* the digit string b plus one unit in its last place
IncBits(b) ==
  IF \A k \in 1..Len(b) : b[k] = 1
  THEN <<1>> \o [k \in 1..Len(b) |-> 0]
  ELSE LET j == CHOOSE k \in 1..Len(b) :
                  b[k] = 0 /\ \A l \in (k + 1)..Len(b) : b[l] = 1
       IN  [k \in 1..Len(b) |-> IF k < j THEN b[k] ELSE IF k = j THEN 1 ELSE 0]

\* round the digit string d (leading digit 1, exponent e) to MantissaBits
\* digits, to nearest, ties to even; sticky: nonzero digits follow d
RoundNearestEven(d, sticky, e) ==
  IF Len(d) <= MantissaBits
  THEN [m |-> d \o [k \in 1..(MantissaBits - Len(d)) |-> 0], e |-> e]
  ELSE LET keep  == SubSeq(d, 1, MantissaBits)
           guard == d[MantissaBits + 1]
           rest  == sticky \/ \E k \in (MantissaBits + 2)..Len(d) : d[k] = 1
           up    == guard = 1 /\ (rest \/ keep[MantissaBits] = 1)
           inc   == IncBits(keep)
       IN  IF ~up THEN [m |-> keep, e |-> e]
           ELSE IF Len(inc) > MantissaBits
                THEN [m |-> SubSeq(inc, 1, MantissaBits), e |-> e + 1]
                ELSE [m |-> inc, e |-> e]

\* the double nearest to num/den, for integers num >= 1, den >= 1
FloatDiv(num, den) ==
  LET q == num \div den
      r == num % den
  IN  IF q >= 1
      THEN LET ib == IntBits(q)
               n  == MantissaBits + 1 - Len(ib)
           IN  RoundNearestEven(ib \o DivDigits(r, den, n),
                                DivRem(r, den, n) # 0, Len(ib) - 1)
      ELSE LET z  == LeadZeros(r, den)
               r2 == r * Pow2(z)
               n  == MantissaBits + 1
           IN  RoundNearestEven(DivDigits(r2, den, n),
                                DivRem(r2, den, n) # 0, 0 - (z + 1))

\* significand times the small integer k, exactly, limb by limb
RECURSIVE MulBits(_, _, _)
MulBits(b, k, carry) ==
  IF Len(b) <= LimbBits THEN IntBits(BitsToInt(b) * k + carry)
  ELSE LET v == BitsToInt(SubSeq(b, Len(b) - LimbBits + 1, Len(b))) * k + carry
           w == Pow2Table[LimbBits]
       IN  MulBits(SubSeq(b, 1, Len(b) - LimbBits), k, v \div w)
             \o FixedBits(v % w, LimbBits)

\* the double nearest to x * k, k a small positive integer (exact as double)
FloatMulInt(x, k) ==
  LET p == MulBits(x.m, k, 0)
  IN  RoundNearestEven(p, FALSE, x.e + (Len(p) - MantissaBits))

\* Math.round of a positive double below 2^MantissaBits: the nearest
\* integer, ties towards +Infinity
MathRound(x) ==
  IF x.e < 0 - 1 THEN 0
  ELSE IF x.e = 0 - 1 THEN 1
  ELSE BitsToInt(SubSeq(x.m, 1, x.e + 1))
       + (IF x.e + 2 <= MantissaBits THEN x.m[x.e + 2] ELSE 0)

\* round(100 * num / den) in exact arithmetic, ties up
RoundHalfUp(num, den) == (2 * num + den) \div (2 * den)

ProgressPctExact(done, totalFiles) == RoundHalfUp(100 * done, totalFiles)

\* const pct = Math.round(((i + 1) / totalFiles) * 100), done = i + 1
ProgressPct(done, totalFiles) ==
  MathRound(FloatMulInt(FloatDiv(done, totalFiles), 100))

(***************************************************************************)
(* File names, paths and the file system.  A name is [stem, ext] (ext      *)
(* without the dot, "" when the name has none); a path is a sequence of    *)
(* names, absolute when it starts with RootName.                           *)
(***************************************************************************)
N(stem, ext) == [stem |-> stem, ext |-> ext]

RootName == N("/", "")

\* path.join(dir, e.name)
PathJoin(dir, name) == Append(dir, name)

IsAbsolute(p) == Len(p) > 0 /\ p[1] = RootName

RECURSIVE CommonPrefixLen(_, _)
CommonPrefixLen(a, b) ==
  IF a = <<>> \/ b = <<>> \/ a[1] # b[1] THEN 0
  ELSE 1 + CommonPrefixLen(Tail(a), Tail(b))

\* the file's own path where the path relative to the root belongs
PathRelativeAbsolute(from, to) == to

\* path.relative(from, to) for two absolute paths
PathRelative(from, to) ==
  LET c == CommonPrefixLen(from, to)
  IN  [k \in 1..(Len(from) - c) |-> N("..", "")] \o SubSeq(to, c + 1, Len(to))

\* path.resolve('uploads', 'projects', projectId)
ProjectPath == <<RootName, N("uploads", ""), N("projects", ""), N("p1", "")>>

\* number of files of the largest run whose progress values are checked
MaxProgressFiles == 40

\* the j-th file of a project of many files: 1.js, 2.js, ...
NumberedName(j) == N(ToString(j), "js")

\* the order in which readdir lists the names of one directory
NameOrder ==
  [j \in 1..MaxProgressFiles |-> NumberedName(j)] \o
  << N("README", "md"), N("app", "js"), N("backend", ""), N("dep", "js"),
     N("dist", ""), N("frontend", ""), N("lib", ""), N("main", "ts"),
     N("node_modules", ""), N("out", "js"), N("package", "json"), N("server", ""),
     N("src", ""), N("util", "tsx"), N("view", "vue") >>

\* the source files a project holds, in the order they are added to it
FileNames == << N("main", "ts"), N("app", "js"), N("util", "tsx"), N("view", "vue") >>

\* number of source files of the largest project
MaxFiles == 2

Shapes == {"missing", "unreadable", "flat", "src", "locked"}

\* a file system: the directories, the files, and the directories that
\* cannot be read (EACCES)
Layout(shape, k) ==
  LET P   == ProjectPath
      src == PathJoin(P, N("src", ""))
      lib == PathJoin(P, N("lib", ""))
  IN  CASE shape = "missing" ->
             [dirs |-> {}, files |-> {}, denied |-> {}]
        [] shape = "unreadable" ->
             [dirs |-> {P}, files |-> {PathJoin(P, FileNames[1])}, denied |-> {P}]
        [] shape = "flat" ->
             [dirs   |-> {P, PathJoin(P, N("node_modules", ""))},
              files  |-> {PathJoin(P, N("README", "md")),
                          PathJoin(PathJoin(P, N("node_modules", "")), N("dep", "js"))}
                         \cup {PathJoin(P, FileNames[j]) : j \in 1..k},
              denied |-> {}]
        [] shape = "src" ->
             [dirs   |-> {P, src, PathJoin(src, N("lib", "")), PathJoin(P, N("dist", ""))},
              files  |-> {PathJoin(P, N("package", "json")),
                          PathJoin(PathJoin(P, N("dist", "")), N("out", "js"))}
                         \cup {PathJoin(PathJoin(src, N("lib", "")), FileNames[j]) :
                                 j \in 1..(IF k >= 1 THEN 1 ELSE 0)}
                         \cup {PathJoin(src, FileNames[j]) : j \in 2..k},
              denied |-> {}]
        [] shape = "locked" ->
             [dirs   |-> {P, lib},
              files  |-> {PathJoin(lib, N("dep", "js"))}
                         \cup {PathJoin(P, FileNames[j]) : j \in 1..k},
              denied |-> {lib}]

Layouts == {Layout(shape, k) : shape \in Shapes, k \in 0..MaxFiles}

\* a project of k numbered files in its root
ManyFilesLayout(k) ==
  [dirs |-> {ProjectPath}, files |-> {PathJoin(ProjectPath, NumberedName(j)) : j \in 1..k},
   denied |-> {}]

ReaddirFails(fsys, d) == d \notin fsys.dirs \/ d \in fsys.denied

\* fsPromises.readdir(d): the names in d, in listing order
Readdir(fsys, d) ==
  LET kids == {p[Len(d) + 1] : p \in {q \in fsys.dirs \cup fsys.files :
                                        Len(q) = Len(d) + 1 /\ SubSeq(q, 1, Len(d)) = d}}
  IN  SelectSeq(NameOrder, LAMBDA n : n \in kids)

\* Dirent.isDirectory()
IsDirectory(fsys, p) == p \in fsys.dirs

(***************************************************************************)
(* AnalysisEngine.detectFrameworkAndSource                                 *)
(***************************************************************************)
\* Object.entries(indicators), in insertion order
Indicators ==
  << [fw |-> "react",       clues |-> {N("App", "js"), N("App", "tsx"), N("package", "json")}],
     [fw |-> "next",        clues |-> {N("next.config", "js"), N("pages", "")}],
     [fw |-> "nest",        clues |-> {N("nest-cli", "json"), N("main", "ts")}],
     [fw |-> "express",     clues |-> {N("server", "js"), N("app", "js")}],
     [fw |-> "vue",         clues |-> {N("App", "vue"), N("main", "ts")}],
     [fw |-> "angular",     clues |-> {N("angular", "json")}],
     [fw |-> "svelte",      clues |-> {N("App", "svelte"), N("svelte.config", "js")}],
     [fw |-> "nuxt",        clues |-> {N("nuxt.config", "js")}],
     [fw |-> "reactnative", clues |-> {N("react-native.config", "js")}],
     [fw |-> "expo",        clues |-> {N("app", "json")}],
     [fw |-> "fullstack",   clues |-> {N("frontend", ""), N("backend", ""),
                                       N("client", ""), N("server", "")}] >>

DirsToCheck(basePath) ==
  << PathJoin(basePath, N("src", "")), PathJoin(basePath, N("frontend", "")),
     PathJoin(basePath, N("backend", "")), PathJoin(basePath, N("server", "")),
     basePath >>

\* /\.(ts|js|tsx|jsx|vue|svelte)$/
DetectExts == {"ts", "js", "tsx", "jsx", "vue", "svelte"}

Range(sq) == {sq[k] : k \in 1..Len(sq)}

\* the loop over dirsToCheck from position k on, with the values framework
\* and detectedDir hold so far
RECURSIVE DetectFrom(_, _, _, _, _)
DetectFrom(fsys, dirs, k, framework, detectedDir) ==
  IF k > Len(dirs) THEN [framework |-> framework, dir |-> detectedDir]
  ELSE IF ReaddirFails(fsys, dirs[k])
       THEN DetectFrom(fsys, dirs, k + 1, framework, detectedDir)
  ELSE LET set  == Range(Readdir(fsys, dirs[k]))
           hits == {j \in 1..Len(Indicators) : Indicators[j].clues \cap set # {}}
           hit  == hits # {}
           fw   == Indicators[CHOOSE j \in hits : \A l \in hits : j <= l].fw
           f2   == IF hit THEN fw ELSE framework
           d2   == IF hit THEN dirs[k] ELSE detectedDir
       IN  IF \E e \in set : e.ext \in DetectExts
           THEN [framework |-> f2, dir |-> d2]
           ELSE DetectFrom(fsys, dirs, k + 1, f2, d2)

DetectFrameworkAndSource(fsys, basePath) ==
  DetectFrom(fsys, DirsToCheck(basePath), 1, "node", basePath)

(***************************************************************************)
(* AnalysisEngine.initESLintForFramework: the configuration built for a    *)
(* framework                                                               *)
(***************************************************************************)
\* the default branch of the switch for every framework
ESLintConfigGeneric(framework) ==
  [extends |-> <<"eslint:recommended">>,
   plugins |-> <<>>, ecmaVersion |-> 2021, jsx |-> FALSE]

ESLintConfig(framework) ==
  CASE framework \in {"react", "next", "reactnative", "expo"} ->
         [extends |-> <<"eslint:recommended", "plugin:react/recommended">>,
          plugins |-> <<"react", "react-hooks">>, ecmaVersion |-> 2021, jsx |-> TRUE]
    [] framework \in {"vue", "nuxt"} ->
         [extends |-> <<"plugin:vue/vue3-recommended">>,
          plugins |-> <<"vue">>, ecmaVersion |-> 2021, jsx |-> FALSE]
    [] framework \in {"angular", "nest"} ->
         [extends |-> <<"plugin:@typescript-eslint/recommended">>,
          plugins |-> <<"@typescript-eslint">>, ecmaVersion |-> 2022, jsx |-> FALSE]
    [] framework = "svelte" ->
         [extends |-> <<"plugin:svelte/recommended">>,
          plugins |-> <<"svelte">>, ecmaVersion |-> 2021, jsx |-> FALSE]
    [] OTHER ->
         [extends |-> <<"eslint:recommended">>,
          plugins |-> <<>>, ecmaVersion |-> 2021, jsx |-> FALSE]

(***************************************************************************)
(* AnalysisEngine.getJavaScriptFiles                                       *)
(***************************************************************************)
\* a scanner that skips the installed packages only
DenyListPackagesOnly == {N("node_modules", "")}

DenyList == {N("node_modules", ""), N("dist", ""), N("build", ""), N("", "git"), N("", "next")}

\* /\.(mjs|cjs|js|jsx|ts|tsx|vue|svelte)$/
SourceExts == {"mjs", "cjs", "js", "jsx", "ts", "tsx", "vue", "svelte"}

RECURSIVE GetJavaScriptFiles(_, _)
RECURSIVE ScanEntries(_, _, _, _)
\* the for loop over entries from position k on
ScanEntries(fsys, dir, entries, k) ==
  IF k > Len(entries) THEN <<>>
  ELSE LET full == PathJoin(dir, entries[k])
           here == IF entries[k] \in DenyList THEN <<>>
                   ELSE IF IsDirectory(fsys, full) THEN GetJavaScriptFiles(fsys, full)
                   ELSE IF entries[k].ext \in SourceExts THEN <<full>>
                   ELSE <<>>
       IN  here \o ScanEntries(fsys, dir, entries, k + 1)

GetJavaScriptFiles(fsys, dir) ==
  IF ReaddirFails(fsys, dir) THEN <<>>
  ELSE ScanEntries(fsys, dir, Readdir(fsys, dir), 1)

(***************************************************************************)
(* Source text and syntax trees                                            *)
(***************************************************************************)
\* code.split('\n'): the pieces of a text between its newlines
RECURSIVE SplitLines(_, _)
SplitLines(code, cur) ==
  IF code = <<>> THEN <<cur>>
  ELSE IF code[1] = "\n" THEN <<cur>> \o SplitLines(Tail(code), <<>>)
  ELSE SplitLines(Tail(code), Append(cur, code[1]))

\* the lines that hold text, where every piece between newlines counts
LinesOfCodeNonEmpty(code) ==
  Len(SelectSeq(SplitLines(code, <<>>), LAMBDA piece : piece # <<>>))

LinesOfCode(code) == Len(SplitLines(code, <<>>))

\* number of newlines of the longest text
MaxNewlines == 1

\* the text of j lines ended by a newline, followed or not by an unended line
TextOf(j, open) ==
  [k \in 1..(2 * j) |-> IF k % 2 = 1 THEN "a" ELSE "\n"] \o (IF open THEN <<"a">> ELSE <<>>)

Texts == {TextOf(j, open) : j \in 0..MaxNewlines, open \in BOOLEAN}

\* a node of a Babel syntax tree: its type, the attribute the calculators
\* read (SwitchCase.test present, LogicalExpression.operator) and its children
Node(type, attr, kids) == [type |-> type, attr |-> attr, kids |-> kids]

Leaf(type) == Node(type, Null, <<>>)

AstEmpty == Node("File", Null, <<Node("Program", Null, <<>>)>>)

\* import x from 'y';
\* function f(a, b) { if (a) {} else if (b) {} return a && b; }
\* class C {}
\* const g = () => { switch (a) { case 1: break; default: } };
AstBranchy ==
  Node("File", Null, <<Node("Program", Null,
    << Leaf("ImportDeclaration"),
       Node("FunctionDeclaration", Null, <<Node("BlockStatement", Null,
         << Node("IfStatement", Null,
              << Leaf("Identifier"), Leaf("BlockStatement"),
                 Node("IfStatement", Null, <<Leaf("Identifier"), Leaf("BlockStatement")>>) >>),
            Node("ReturnStatement", Null,
              <<Node("LogicalExpression", "&&", <<Leaf("Identifier"), Leaf("Identifier")>>)>>) >>)>>),
       Node("ClassDeclaration", Null, <<Leaf("ClassBody")>>),
       Node("VariableDeclaration", Null, <<Node("ArrowFunctionExpression", Null,
         <<Node("BlockStatement", Null, <<Node("SwitchStatement", Null,
           << Node("SwitchCase", "test", <<Leaf("BreakStatement")>>),
              Node("SwitchCase", Null, <<>>) >>)>>)>>)>>) >>)>>)

SampleAsts == {AstEmpty, AstBranchy}

\* traverse(ast, visitors): the nodes in the order the visitors enter them
RECURSIVE Nodes(_)
RECURSIVE NodesOfAll(_)
Nodes(n) == <<n>> \o NodesOfAll(n.kids)
NodesOfAll(kids) == IF kids = <<>> THEN <<>> ELSE Nodes(kids[1]) \o NodesOfAll(Tail(kids))

\* visitors that count the default case of a switch as well
IsDecisionPointOrDefault(n) ==
  \/ n.type \in {"IfStatement", "ForStatement", "ForInStatement", "ForOfStatement",
                 "WhileStatement", "DoWhileStatement", "CatchClause",
                 "ConditionalExpression", "SwitchCase"}
  \/ n.type = "LogicalExpression" /\ n.attr \in {"||", "&&"}

\* ComplexityCalculator.calculate
IsDecisionPoint(n) ==
  \/ n.type \in {"IfStatement", "ForStatement", "ForInStatement", "ForOfStatement",
                 "WhileStatement", "DoWhileStatement", "CatchClause",
                 "ConditionalExpression"}
  \/ n.type = "SwitchCase" /\ n.attr # Null
  \/ n.type = "LogicalExpression" /\ n.attr \in {"||", "&&"}

Calculate(ast) == 1 + Len(SelectSeq(Nodes(ast), IsDecisionPoint))

IsFunction(n) ==
  n.type \in {"FunctionDeclaration", "ArrowFunctionExpression", "FunctionExpression"}

CountFunctions(ast) == Len(SelectSeq(Nodes(ast), IsFunction))

IsClass(n) == n.type = "ClassDeclaration"

CountClasses(ast) == Len(SelectSeq(Nodes(ast), IsClass))

IsImport(n) == n.type = "ImportDeclaration"

CountImports(ast) == Len(SelectSeq(Nodes(ast), IsImport))

(***************************************************************************)
(* Issues                                                                  *)
(***************************************************************************)
\* AnalysisEngine.mapLintSeverity
MapLintSeverity(sev) == IF sev = 2 THEN "error" ELSE IF sev = 1 THEN "warning" ELSE "info"

\* the messages a lintText call may report, in report order
LintMessages ==
  << [severity |-> 2, ruleId |-> "no-undef"],
     [severity |-> 1, ruleId |-> Null],
     [severity |-> 0, ruleId |-> "no-console"] >>

\* largest number of messages of one lintText call
MaxLint == 2

\* largest number of issues one detector finds in one file
MaxFound == 1

\* the security detector moved to the front of the array
DetectorsSecurityFirst == <<"Security", "Syntax", "Logic", "Performance">>

\* the detectors in the order analyzeFile runs them
Detectors == <<"Syntax", "Logic", "Performance", "Security">>

\* what each detector can report: its issue type and two of its codes
DetectorTable ==
  [Syntax      |-> [type |-> "syntax",
                    finds |-> << [severity |-> "warning", code |-> "UNUSED_VARIABLE"],
                                 [severity |-> "info", code |-> "CONSOLE_STATEMENT"] >>],
   Logic       |-> [type |-> "logic",
                    finds |-> << [severity |-> "error", code |-> "UNHANDLED_PROMISE"],
                                 [severity |-> "warning", code |-> "ASYNC_NO_TRY_CATCH"] >>],
   Performance |-> [type |-> "performance",
                    finds |-> << [severity |-> "warning", code |-> "NESTED_LOOPS"],
                                 [severity |-> "info", code |-> "STRING_CONCAT_LOOP"] >>],
   Security    |-> [type |-> "security",
                    finds |-> << [severity |-> "error", code |-> "DANGEROUS_EVAL"],
                                 [severity |-> "warning", code |-> "XSS_RISK"] >>]]

Min(a, b) == IF a <= b THEN a ELSE b

\* detector.detect(ast, code, filePath) when it finds n issues: every issue
\* carries the filePath argument
Detect(name, n, filePath) ==
  [k \in 1..Min(n, Len(DetectorTable[name].finds)) |->
     [type     |-> DetectorTable[name].type,
      severity |-> DetectorTable[name].finds[k].severity,
      code     |-> DetectorTable[name].finds[k].code,
      filePath |-> filePath]]

\* the outcome "the call throws", among outcomes that are counts
Throws == 0 - 1

(***************************************************************************)
(* What the collaborators do for one file:                                 *)
(*   readable  fsPromises.readFile succeeds                                *)
(*   code      the text read                                               *)
(*   parses    @babel/parser parse succeeds                                *)
(*   ast       the tree it returns                                         *)
(*   lint      Throws, or the number of messages lintText reports          *)
(*   det       per detector: Throws, or the number of issues found         *)
(*   cx        Throws when ComplexityCalculator.calculate throws, else 0   *)
(*   count     which of the counting traversals throws, if any             *)
(***************************************************************************)
CountOutcomes == {"none", "countFunctions", "countClasses", "countImports"}

PlainEnv ==
  [readable |-> TRUE, code |-> <<>>, parses |-> TRUE, ast |-> AstEmpty, lint |-> 0,
   det |-> [d \in Range(Detectors) |-> 0], cx |-> 0, count |-> "none"]

\* what happens after a failed read, or after a failed parse, is never asked
\* for, so those outcomes are left plain
FileEnvs ==
  {[PlainEnv EXCEPT !.readable = FALSE]}
  \cup {[PlainEnv EXCEPT !.code = c, !.parses = FALSE] : c \in Texts}
  \cup [readable : {TRUE}, code : Texts, parses : {TRUE}, ast : SampleAsts,
        lint : {Throws} \cup (0..MaxLint),
        det : [Range(Detectors) -> {Throws} \cup (0..MaxFound)],
        cx : {Throws, 0}, count : CountOutcomes]

(***************************************************************************)
(* AnalysisEngine.analyzeFile.  The value is [threw, value, text, calls]:  *)
(* value is the object returned or the name of the call whose error       *)
(* escaped, text the text read, and calls lists the collaborators         *)
(* invoked, in order, each with whether it returned.                      *)
(***************************************************************************)
Call(who, ok) == [who |-> who, ok |-> ok]

IoIssue(rel) ==
  [type |-> "io", severity |-> "error", filePath |-> rel]

ParseIssue(rel) ==
  [type |-> "syntax", severity |-> "error", filePath |-> rel, code |-> "PARSE_ERROR"]

LintIssue(msg, rel) ==
  [type |-> "lint", severity |-> MapLintSeverity(msg.severity), filePath |-> rel,
   code |-> IF msg.ruleId = Null THEN "LINT_ERROR" ELSE msg.ruleId]

\* the ESLint block
LintIssues(eslint, env, rel) ==
  IF eslint = Nil \/ env.lint = Throws THEN <<>>
  ELSE [k \in 1..Min(env.lint, Len(LintMessages)) |-> LintIssue(LintMessages[k], rel)]

LintCalls(eslint, env) ==
  IF eslint = Nil THEN <<>> ELSE <<Call("lintText", env.lint # Throws)>>

\* the for loop over the detectors from position k on
RECURSIVE DetectorIssues(_, _, _)
DetectorIssues(env, rel, k) ==
  IF k > Len(Detectors) THEN <<>>
  ELSE (IF env.det[Detectors[k]] = Throws THEN <<>>
        ELSE Detect(Detectors[k], env.det[Detectors[k]], rel))
       \o DetectorIssues(env, rel, k + 1)

DetectorCalls(env) ==
  [k \in 1..Len(Detectors) |-> Call(Detectors[k], env.det[Detectors[k]] # Throws)]

\* safeComplexity
SafeComplexity(env) == IF env.cx = Throws THEN 0 ELSE Calculate(env.ast)

\* the counting traversals, in the order the metrics literal evaluates them
CountOrder == <<"countFunctions", "countClasses", "countImports">>

CountCalls(env) ==
  LET last == IF env.count = "none" THEN Len(CountOrder)
              ELSE CHOOSE k \in 1..Len(CountOrder) : CountOrder[k] = env.count
  IN  [k \in 1..last |-> Call(CountOrder[k], CountOrder[k] # env.count)]

\* the line count of the empty text, ''.split('\n').length, where 0 belongs
ReadFailureCountingLines(rel) ==
  [filePath |-> rel, issues |-> <<IoIssue(rel)>>,
   metrics |-> [linesOfCode |-> LinesOfCode(<<>>)]]

\* the object returned when the read fails
ReadFailure(rel) ==
  [filePath |-> rel, issues |-> <<IoIssue(rel)>>, metrics |-> [linesOfCode |-> 0]]

\* the object returned when the parse fails
ParseFailure(rel, code) ==
  [filePath |-> rel, issues |-> <<ParseIssue(rel)>>,
   metrics |-> [linesOfCode |-> LinesOfCode(code)]]

AnalyzeFile(filePath, root, eslint, env) ==
  LET rel == PathRelative(root, filePath)
  IN  IF ~env.readable
      THEN [threw |-> FALSE, value |-> ReadFailure(rel), text |-> <<>>,
            calls |-> <<Call("readFile", FALSE)>>]
      ELSE IF ~env.parses
      THEN [threw |-> FALSE, value |-> ParseFailure(rel, env.code), text |-> env.code,
            calls |-> <<Call("readFile", TRUE), Call("parse", FALSE)>>]
      ELSE LET issues == LintIssues(eslint, env, rel) \o DetectorIssues(env, rel, 1)
               calls  == <<Call("readFile", TRUE), Call("parse", TRUE)>>
                           \o LintCalls(eslint, env) \o DetectorCalls(env)
                           \o <<Call("calculate", env.cx # Throws)>> \o CountCalls(env)
           IN  IF env.count # "none"
               THEN [threw |-> TRUE, value |-> env.count, text |-> env.code, calls |-> calls]
               ELSE [threw |-> FALSE,
                     value |-> [filePath |-> rel, issues |-> issues,
                                metrics |-> [linesOfCode |-> LinesOfCode(env.code),
                                             complexity  |-> SafeComplexity(env),
                                             functions   |-> CountFunctions(env.ast),
                                             classes     |-> CountClasses(env.ast),
                                             imports     |-> CountImports(env.ast)]],
                     text |-> env.code, calls |-> calls]

(***************************************************************************)
(* AnalysisEngine.calculateMetrics.  Numbers with two decimals are kept as *)
(* integers of hundredths (3.5 is 350).                                    *)
(***************************************************************************)
\* f.metrics.<field> ?? 0
MetricOr0(f, field) == IF field \in DOMAIN f.metrics THEN f.metrics[field] ELSE 0

CountSeverity(f, sev) == Len(SelectSeq(f.issues, LAMBDA i : i.severity = sev))

\* totals.cx = f.metrics.complexity where += belongs: the last file's value
LastMetric(fas, field) ==
  IF fas = <<>> THEN 0 ELSE MetricOr0(fas[Len(fas)], field)

\* the totals the loop over the files accumulates
SumMetric(fas, field) == SumSeq([k \in 1..Len(fas) |-> MetricOr0(fas[k], field)])

\* the issues of the files that were measured in full only
SumSeverityMeasured(fas, sev) ==
  SumSeq([k \in 1..Len(fas) |->
            IF "complexity" \in DOMAIN fas[k].metrics THEN CountSeverity(fas[k], sev)
            ELSE 0])

SumSeverity(fas, sev) == SumSeq([k \in 1..Len(fas) |-> CountSeverity(fas[k], sev)])

\* 5.2 * Math.log(loc * Math.log2(loc + 1)) for loc = 1, 2, ...: the whole
\* millionths, and the next six decimals
LogTermHi ==
  << 0, 5999281, 9317149, 11589199, 13307574, 14684811, 15831516, 16812377,
     17668403, 18427184, 19108145, 19725463, 20289797, 20809355, 21290591, 21738668,
     22157779, 22551375, 22922331, 23273064, 23605627, 23921779, 24223035, 24510714,
     24785965, 25049801, 25303116, 25546702, 25781268, 26007448, 26225810, 26436869,
     26641091, 26838897, 27030672, 27216768, 27397505, 27573181, 27744065, 27910410,
     28072446, 28230387, 28384432, 28534767, 28681564, 28824982, 28965171, 29102272,
     29236416, 29367726, 29496318, 29622300, 29745775, 29866839, 29985583, 30102094,
     30216452, 30328735, 30439016, 30547364, 30653844, 30758519, 30861449, 30962690,
     31062296, 31160318, 31256804, 31351803, 31445358, 31537512, 31628306, 31717778,
     31805968, 31892909, 31978637, 32063184, 32146583, 32228863, 32310054, 32390185,
     32469281, 32547369, 32624474, 32700621, 32775832, 32850130, 32923537, 32996073,
     33067758, 33138613, 33208656, 33277904, 33346377, 33414090, 33481060, 33547304,
     33612835, 33677671, 33741824, 33805309, 33868140, 33930329, 33991891, 34052836,
     34113177, 34172926, 34232094, 34290693, 34348732, 34406223, 34463175, 34519599,
     34575504, 34630900, 34685795, 34740198, 34794118, 34847564, 34900543, 34953064,
     35005135, 35056762, 35107954, 35158717, 35209058, 35258986, 35308505, 35357623 >>

LogTermLo ==
  << 0, 229543, 239985, 840549, 351751, 442017, 676161, 246278,
     704462, 861796, 91075, 186612, 108466, 544371, 723554, 471500,
     251085, 485599, 120587, 90097, 530507, 337220, 943170, 419446,
     808548, 789417, 210375, 629084, 714602, 160650, 607980, 961436,
     403042, 338512, 465751, 116158, 990221, 385867, 999907, 368432,
     514, 250236, 964581, 938564, 204014, 174258, 663605, 797664,
     828219, 864401, 530239, 557309, 319997, 319914, 625128, 269191,
     614271, 682199, 456764, 160206, 506481, 933624, 817221, 666814,
     306835, 43526, 819106, 354346, 280578, 262061, 109540, 885738,
     3476, 317002, 207113, 660548, 344121, 673999, 880499, 68759,
     275575, 522714, 866937, 446990, 527777, 541905, 128805, 171572,
     831709, 581894, 236911, 982872, 404836, 512930, 767066, 100355,
     941280, 234727, 461925, 659378, 436838, 994381, 138640, 298247,
     538516, 575433, 788972, 235789, 661318, 511312, 942856, 834873,
     798162, 184990, 98253, 400245, 721035, 466491, 825956, 779606,
     105488, 386275, 15737, 204945, 988229, 228886, 624672, 713064 >>

\* calculateMaintainabilityIndex(cxSum / n, loc), in hundredths: raw is
\* kept in millionths, rounded down (the low decimals decide the borrow)
MaintainabilityRounded(cxSum, n, loc) ==
  LET num    == 230000 * cxSum
      cxHi   == num \div n
      cxLo   == ((num % n) * 1000000) \div n
      low    == LogTermLo[loc] + cxLo
      borrow == IF low = 0 THEN 0 ELSE IF low <= 1000000 THEN 1 ELSE 2
      raw6   == 171000000 - LogTermHi[loc] - cxHi - borrow
  IN  raw6 \div 17100 + (IF raw6 % 17100 >= 8550 THEN 1 ELSE 0)

\* the rounded value without Math.max(0, Math.min(100, ...))
MaintainabilityUnclamped(cxSum, n, loc) == MaintainabilityRounded(cxSum, n, loc)

\* Math.max(0, Math.min(100, Math.round(raw * 100) / 100))
MaintainabilityOf(cxSum, n, loc) ==
  LET r == MaintainabilityRounded(cxSum, n, loc)
  IN  IF r < 0 THEN 0 ELSE IF r > 10000 THEN 10000 ELSE r

\* without the guard on loc: Math.log(0) is -Infinity, raw is +Infinity and
\* Math.min(100, raw) is 100
CalculateMaintainabilityIndexUnguarded(cxSum, n, loc) ==
  IF loc = 0 THEN 10000 ELSE MaintainabilityOf(cxSum, n, loc)

CalculateMaintainabilityIndex(cxSum, n, loc) ==
  IF loc = 0 THEN 0 ELSE MaintainabilityOf(cxSum, n, loc)

CalculateMetrics(fas) ==
  LET loc == SumMetric(fas, "linesOfCode")
      cx  == SumMetric(fas, "complexity")
      fn  == SumMetric(fas, "functions")
      cl  == SumMetric(fas, "classes")
  IN  [totalLinesOfCode  |-> loc,
       averageComplexity |-> IF Len(fas) = 0 \/ cx = 0 THEN 0
                             ELSE MathRound(FloatMulInt(FloatDiv(cx, Len(fas)), 100)),
       totalFunctions    |-> fn,
       totalClasses      |-> cl,
       issueBreakdown    |-> [sev \in {"error", "warning", "info"} |-> SumSeverity(fas, sev)],
       maintainabilityIndex |->
         IF Len(fas) = 0 THEN CalculateMaintainabilityIndex(0, 1, loc)
         ELSE CalculateMaintainabilityIndex(cx, Len(fas), loc)]

(***************************************************************************)
(* State                                                                   *)
(***************************************************************************)
VARIABLES
  fs,            \* the file system the run reads
  mode,          \* which family of collaborator outcomes the run draws from
  cb,            \* the progress callback: "none" when the caller passes none
  pc,            \* position of analyzeCodebase
  framework,     \* detectFrameworkAndSource's result
  dir,
  eslint,        \* this.eslint
  files,         \* the scanner's list
  idx,           \* the loop variable i
  allIssues,
  fileAnalyses,
  progress,      \* the values passed to progressCallback, in order
  fileCalls,     \* history: per analyzeFile call, the collaborators it invoked
  fileTexts,     \* history: per analyzeFile call, the text it read
  result,        \* the AnalysisResult returned, or Nil
  thrown,        \* the error analyzeCodebase rejected with, or Null
  worker,        \* the job processor that runs the engine, "none" without one
  wpc,           \* position of the job processor
  projectFound,  \* whether Project.findById finds the job's project
  analysis,      \* the job's Analysis document
  issueDocs,     \* the Issue collection
  inflight,      \* progress values whose database write has not landed yet
  cbLog,         \* history: how each call of progressCallback ended
  records,       \* the Analysis collection of one project, by analysis id
  jobs,          \* the 'analysis' queue: the job of each analysis id
  pending,       \* the service calls under way
  replies,       \* history: the service calls that ended, with their outcome
  attempt,       \* runWithRetry's attempt
  jobResult,     \* how the processor's promise settled, or Null
  trace,         \* history: what analyzeCodebase did, in order
  trav,          \* one traversal of ComplexityCalculator
  txn,           \* one call of runWithRetry
  factory,       \* AIAdapterFactory.adapters and what create returned
  project        \* one Project document and the addMember calls on it

engineVars ==
  <<fs, mode, cb, pc, framework, dir, eslint, files, idx, allIssues,
    fileAnalyses, progress, fileCalls, fileTexts, result, thrown, trace>>

\* what the engine's actions other than the callback leave alone
dbVars == <<worker, wpc, projectFound, analysis, issueDocs, attempt, jobResult>>

\* what AnalysisService and the queue work on
svcVars == <<records, jobs, pending, replies>>

\* what the engine, the processors and AnalysisService never touch
sideVars == <<trav, txn, factory, project>>

vars == <<engineVars, dbVars, inflight, cbLog, svcVars, sideVars>>

\* the processors registered on the 'analysis' queue
Workers == {"analysisWorker", "socketWorker"}

\* "ok" is a caller's callback that returns
Callbacks == {"none", "ok"}

\* "throws" is a callback that may throw before it returns, "rejects" an
\* async one whose promise may reject
FailingCallbacks == {"throws", "rejects"}

\* the callbacks whose promise rejects when an awaited update fails: the one
\* of analysisSocket catches inside
MayReject == {"rejects", "analysisWorker"}

\* how one progressCallback(pct) ends: the call sits in a try block and is
\* not awaited, so the catch sees what is thrown before the call returns; a
\* promise that rejects later reaches process.on('unhandledRejection')
CallbackOutcome(c, fails) ==
  IF ~fails THEN "returned"
  ELSE IF c = "throws" THEN "caught"
  ELSE "unhandled"

\* Math.floor of a positive double
MathFloor(x) == IF x.e < 0 THEN 0 ELSE BitsToInt(SubSeq(x.m, 1, x.e + 1))

\* what the processor's callback writes for the engine's value:
\* Math.min(80, 10 + Math.floor(progress * 0.7)) in analysisWorker, the value
\* itself in analysisSocket
CallbackPercent(w, pct) ==
  IF w = "socketWorker" THEN pct
  ELSE Min(80, 10 + (IF pct = 0 THEN 0
                     ELSE MathFloor(FloatMulInt(FloatDiv(7, 10), pct))))

\* a readable file of two lines that parses
RunText == TextOf(1, TRUE)

\* outcomes for the files of a run of several files: the four detectors
\* behave alike and a counting traversal that throws is the first one
RunFileEnvs ==
  {[PlainEnv EXCEPT !.readable = FALSE]}
  \cup {[PlainEnv EXCEPT !.code = RunText, !.parses = FALSE]}
  \cup {[readable |-> TRUE, code |-> RunText, parses |-> TRUE, ast |-> AstBranchy,
         lint |-> l, det |-> [d \in Range(Detectors) |-> dd], cx |-> c, count |-> n] :
          l \in {Throws, 1}, dd \in {Throws, 0, 1}, c \in {Throws, 0},
          n \in {"none", "countFunctions"}}

\* every collaborator succeeds and finds nothing
PlainFileEnvs == {[PlainEnv EXCEPT !.code = RunText]}

EnvsOf(m) ==
  CASE m = "full"  -> FileEnvs
    [] m = "run"   -> RunFileEnvs
    [] m = "plain" -> PlainFileEnvs

\* nothing traversed, no transaction, an empty adapter cache, no project
SideIdle ==
  /\ trav = Nil
  /\ txn = Nil
  /\ factory = Nil
  /\ project = Nil

Event(ev, arg) == [ev |-> ev, arg |-> arg]

\* no analysis was ever started
ServiceIdle ==
  /\ records = <<>>
  /\ jobs = <<>>
  /\ pending = {}
  /\ replies = {}

EngineInit(layouts, cbs, m) ==
  /\ fs \in layouts
  /\ cb \in cbs
  /\ mode = m
  /\ pc = "detect"
  /\ framework = Null
  /\ dir = <<>>
  /\ eslint = Nil
  /\ files = <<>>
  /\ idx = 0
  /\ allIssues = <<>>
  /\ fileAnalyses = <<>>
  /\ progress = <<>>
  /\ fileCalls = <<>>
  /\ fileTexts = <<>>
  /\ result = Nil
  /\ thrown = Null
  /\ worker = "none"
  /\ wpc = "none"
  /\ projectFound = TRUE
  /\ analysis = Nil
  /\ issueDocs = <<>>
  /\ inflight = <<>>
  /\ cbLog = <<>>
  /\ ServiceIdle
  /\ SideIdle
  /\ trace = <<>>
  /\ attempt = 0
  /\ jobResult = Null

(***************************************************************************)
(* AnalysisEngine.analyzeCodebase, one action per stretch between awaits   *)
(***************************************************************************)
\* const { framework, dir } = await this.detectFrameworkAndSource(projectPath)
DetectStep ==
  /\ pc = "detect"
  /\ LET d == DetectFrameworkAndSource(fs, ProjectPath)
     IN  framework' = d.framework /\ dir' = d.dir
  /\ pc' = "eslint"
  /\ trace' = Append(trace, Event("detect", framework'))
  /\ UNCHANGED <<fs, mode, cb, eslint, files, idx, allIssues, fileAnalyses,
                 progress, fileCalls, fileTexts, result, thrown, inflight, cbLog>>
  /\ UNCHANGED dbVars
  /\ UNCHANGED svcVars
  /\ UNCHANGED sideVars

\* await this.initESLintForFramework(framework)
InitESLintStep ==
  /\ pc = "eslint"
  /\ eslint' = ESLintConfig(framework)
  /\ pc' = "scan"
  /\ trace' = Append(trace, Event("eslint", framework))
  /\ UNCHANGED <<fs, mode, cb, framework, dir, files, idx, allIssues, fileAnalyses,
                 progress, fileCalls, fileTexts, result, thrown, inflight, cbLog>>
  /\ UNCHANGED dbVars
  /\ UNCHANGED svcVars
  /\ UNCHANGED sideVars

\* analyzedFiles counting only the files that were measured in full
AnalysisResultCountingMeasured(d, fls, fas, issues) ==
  [projectPath   |-> d,
   totalFiles    |-> Len(fls),
   analyzedFiles |-> Len(SelectSeq(fas, LAMBDA f : "complexity" \in DOMAIN f.metrics)),
   issues        |-> issues,
   metrics       |-> CalculateMetrics(fas),
   fileAnalyses  |-> fas]

\* the lines after the loop: calculateMetrics and the returned object
AnalysisResultOf(d, fls, fas, issues) ==
  [projectPath   |-> d,
   totalFiles    |-> Len(fls),
   analyzedFiles |-> Len(fas),
   issues        |-> issues,
   metrics       |-> CalculateMetrics(fas),
   fileAnalyses  |-> fas]

\* const files = await this.getJavaScriptFiles(dir), up to the first
\* analyzeFile call; with no file the loop is skipped and the run returns
ScanStep ==
  /\ pc = "scan"
  /\ files' = GetJavaScriptFiles(fs, dir)
  /\ IF Len(files') = 0
     THEN /\ pc' = "done" /\ result' = AnalysisResultOf(dir, files', <<>>, <<>>)
          /\ trace' = trace \o <<Event("scan", dir), Event("start", Null),
                                  Event("metrics", Null), Event("end", Null)>>
     ELSE /\ pc' = "loop" /\ result' = result
          /\ trace' = trace \o <<Event("scan", dir), Event("start", Null)>>
  /\ UNCHANGED <<fs, mode, cb, framework, dir, eslint, idx, allIssues, fileAnalyses,
                 progress, fileCalls, fileTexts, thrown, inflight, cbLog>>
  /\ UNCHANGED dbVars
  /\ UNCHANGED svcVars
  /\ UNCHANGED sideVars

\* one iteration: await this.analyzeFile(files[i], dir), the two pushes and
\* the progress callback; after the last file, the metrics and the return
AnalyzeStep ==
  /\ pc = "loop"
  /\ LET pct == ProgressPct(idx + 1, Len(files))
     IN  \E env \in EnvsOf(mode) :
           LET out == AnalyzeFile(files[idx + 1], dir, eslint, env)
               fas == Append(fileAnalyses, out.value)
               iss == allIssues \o out.value.issues
           IN  /\ fileCalls' = Append(fileCalls, out.calls)
               /\ fileTexts' = Append(fileTexts, out.text)
               /\ IF out.threw
                  THEN /\ pc' = "threw"
                       /\ thrown' = out.value
                       /\ trace' = Append(trace, Event("file", eslint))
                       /\ UNCHANGED <<idx, allIssues, fileAnalyses, progress, result,
                                      inflight, cbLog>>
                  ELSE /\ fileAnalyses' = fas
                       /\ allIssues' = iss
                       /\ progress' = IF cb = "none" THEN progress
                                      ELSE Append(progress, pct)
                       /\ \E fails \in (IF cb \in FailingCallbacks \cup MayReject
                                        THEN BOOLEAN ELSE {FALSE}) :
                            /\ cbLog' = IF cb = "none" THEN cbLog
                                        ELSE Append(cbLog, CallbackOutcome(cb, fails))
                            /\ inflight' = IF cb \in Workers /\ ~fails
                                           THEN Append(inflight, CallbackPercent(cb, pct))
                                           ELSE inflight
                       /\ idx' = idx + 1
                       /\ thrown' = thrown
                       /\ IF idx + 1 = Len(files)
                          THEN /\ pc' = "done"
                               /\ result' = AnalysisResultOf(dir, files, fas, iss)
                               /\ trace' = trace \o <<Event("file", eslint),
                                                       Event("metrics", Null),
                                                       Event("end", Null)>>
                          ELSE /\ pc' = "loop" /\ result' = result
                               /\ trace' = Append(trace, Event("file", eslint))
  /\ UNCHANGED <<fs, mode, cb, framework, dir, eslint, files>>
  /\ UNCHANGED dbVars
  /\ UNCHANGED svcVars
  /\ UNCHANGED sideVars

EngineNext == DetectStep \/ InitESLintStep \/ ScanStep \/ AnalyzeStep

\* whole runs over the small projects
InitEngine == EngineInit(Layouts, Callbacks, "run")

SpecEngine == InitEngine /\ [][EngineNext]_vars

\* runs over one file, every combination of collaborator outcomes
InitFile == EngineInit({Layout("flat", 1), Layout("src", 1)}, {"ok"}, "full")

SpecFile == InitFile /\ [][EngineNext]_vars

\* what a candidate directory of detectFrameworkAndSource holds: nothing
\* (the directory is missing), a signature file that is no source file, a
\* source file that is no signature, or a file that is both
DetectKinds == {"absent", "clue", "source", "both"}

Contents(d, kind) ==
  CASE kind = "clue"   -> {PathJoin(d, N("package", "json"))}
    [] kind = "source" -> {PathJoin(d, N("util", "tsx"))}
    [] kind = "both"   -> {PathJoin(d, N("app", "js"))}
    [] OTHER           -> {}

\* a project whose k-th candidate directory holds kinds[k]; the root exists
DetectLayout(kinds) ==
  LET cands == DirsToCheck(ProjectPath)
  IN  [dirs   |-> {ProjectPath} \cup {cands[k] : k \in {j \in 1..Len(cands) :
                                                       kinds[j] # "absent"}},
       files  |-> UNION {Contents(cands[k], kinds[k]) : k \in 1..Len(cands)},
       denied |-> {}]

DetectLayouts ==
  {DetectLayout(kinds) : kinds \in [1..Len(DirsToCheck(ProjectPath)) -> DetectKinds]}

\* whole runs over the projects of DetectLayouts, every collaborator
\* succeeding
InitDetect == EngineInit(DetectLayouts, {"none"}, "plain")

SpecDetect == InitDetect /\ [][EngineNext]_vars

\* whole runs with a callback that may fail at any of its calls
InitCallback == EngineInit(Layouts, FailingCallbacks, "run")

SpecCallback == InitCallback /\ [][EngineNext]_vars

\* runs over many files, every collaborator succeeding
InitProgress ==
  EngineInit({ManyFilesLayout(k) : k \in 1..MaxProgressFiles}, {"ok"}, "plain")

SpecProgress == InitProgress /\ [][EngineNext]_vars

(***************************************************************************)
(* calculateMetrics as a function of the file results.  The runs start     *)
(* where the loop of analyzeCodebase ends, over lists of results of the    *)
(* kinds analyzeFile returns.                                              *)
(***************************************************************************)
\* allIssues.push(...analysis.issues), file after file
RECURSIVE ConcatIssues(_)
ConcatIssues(fas) ==
  IF fas = <<>> THEN <<>> ELSE fas[1].issues \o ConcatIssues(Tail(fas))

\* cyclomatic complexity of the most complex file result
MaxComplexity == 800

\* length of the longest list taken in every order of its results
MaxMixed == 3

ResultKinds == {"unreadable", "unparsed", "plain", "branchy", "tangled"}

\* a file where lint and every detector report all they can
BusyEnv ==
  [readable |-> TRUE, code |-> RunText, parses |-> TRUE, ast |-> AstBranchy,
   lint |-> Len(LintMessages), det |-> [d \in Range(Detectors) |-> 2], cx |-> 0,
   count |-> "none"]

\* what analyzeFile returns for a file of the kind, at the path rel
ResultOf(kind, rel) ==
  LET at(env) == AnalyzeFile(PathJoin(ProjectPath, rel), ProjectPath,
                             ESLintConfig("node"), env).value
      plain   == at([PlainEnv EXCEPT !.code = RunText])
  IN  CASE kind = "unreadable" -> ReadFailure(<<rel>>)
        [] kind = "unparsed"   -> ParseFailure(<<rel>>, <<"a">>)
        [] kind = "plain"      -> plain
        [] kind = "branchy"    -> at(BusyEnv)
        [] kind = "tangled"    -> [plain EXCEPT !.metrics.complexity = MaxComplexity]

\* n results, the first m of kind a and the others of kind b
TwoKindList(n, m, a, b) ==
  [k \in 1..n |-> ResultOf(IF k <= m THEN a ELSE b, NumberedName(k))]

MetricsInputs ==
  {TwoKindList(n, m, a, b) :
     n \in 0..MaxProgressFiles, m \in 0..MaxProgressFiles,
     a \in {"plain"}, b \in {"unreadable", "branchy"}}
  \cup UNION {{[k \in 1..n |-> ResultOf(kinds[k], NumberedName(k))] :
                 kinds \in [1..n -> ResultKinds]} : n \in 0..MaxMixed}

\* const metrics = this.calculateMetrics(fileAnalyses) and the return
MetricsStep ==
  /\ pc = "metrics"
  /\ result' = AnalysisResultOf(dir, files, fileAnalyses, allIssues)
  /\ pc' = "done"
  /\ trace' = trace \o <<Event("metrics", Null), Event("end", Null)>>
  /\ UNCHANGED <<fs, mode, cb, framework, dir, eslint, files, idx, allIssues,
                 fileAnalyses, progress, fileCalls, fileTexts, thrown, inflight, cbLog>>
  /\ UNCHANGED dbVars
  /\ UNCHANGED svcVars
  /\ UNCHANGED sideVars

MetricsNext == MetricsStep

InitMetrics ==
  \E fas \in MetricsInputs :
    /\ fileAnalyses = fas
    /\ files = [k \in 1..Len(fas) |-> PathJoin(ProjectPath, NumberedName(k))]
    /\ fs = ManyFilesLayout(Len(fas))
    /\ allIssues = ConcatIssues(fas)
    /\ idx = Len(fas)
    /\ pc = "metrics"
    /\ mode = "plain"
    /\ cb = "none"
    /\ framework = "node"
    /\ dir = ProjectPath
    /\ eslint = ESLintConfig("node")
    /\ progress = <<>>
    /\ fileCalls = <<>>
    /\ fileTexts = <<>>
    /\ result = Nil
    /\ thrown = Null
    /\ worker = "none"
    /\ wpc = "none"
    /\ projectFound = TRUE
    /\ analysis = Nil
    /\ issueDocs = <<>>
    /\ inflight = <<>>
    /\ cbLog = <<>>
    /\ ServiceIdle
    /\ SideIdle
    /\ trace = <<>>
    /\ attempt = 0
    /\ jobResult = Null

SpecMetrics == InitMetrics /\ [][MetricsNext]_vars

(***************************************************************************)
(* The Issue collection (src/models/Issue.model.ts) and Model.insertMany   *)
(***************************************************************************)
AnalysisId == "a1"

ProjectId == "p1"

IssueTypes == {"syntax", "logic", "performance", "security", "lint"}

IssueSeverities == {"error", "warning", "info"}

\* the paths issueSchema requires
RequiredPaths == {"analysis", "project", "type", "severity", "code", "filePath"}

\* document validation: every required path is set, the enums hold
ValidIssue(doc) ==
  /\ RequiredPaths \subseteq DOMAIN doc
  /\ doc.type \in IssueTypes
  /\ doc.severity \in IssueSeverities
  /\ doc.filePath # <<>>

\* { ...issue, <extra> }
Spread(issue, extra) ==
  [f \in DOMAIN issue \cup DOMAIN extra |->
     IF f \in DOMAIN extra THEN extra[f] ELSE issue[f]]

\* Model.insertMany: ordered, the first invalid document rejects the call
\* and nothing is inserted; unordered, the invalid documents are left out
InsertMany(docs, ordered) ==
  LET valid == SelectSeq(docs, ValidIssue)
  IN  IF ordered /\ Len(valid) < Len(docs)
      THEN [threw |-> TRUE, message |-> "Issue validation failed", inserted |-> <<>>]
      ELSE [threw |-> FALSE, message |-> Null, inserted |-> valid]

(***************************************************************************)
(* The processor of src/jobs/analysisWorker.ts.  The job data is what      *)
(* AnalysisService.startAnalysis enqueues, with the three ids set.         *)
(***************************************************************************)
MAX_RETRIES == 3

PendingAnalysis ==
  [status |-> "pending", progress |-> 0, error |-> Null, results |-> Nil]

\* a JavaScript value with its runtime kind
JsValue(kind, value) == [kind |-> kind, value |-> value]

\* analysisResult?.analyzedFiles: the engine returns fileAnalyses.length
RawAnalyzed(res) == JsValue("number", res.analyzedFiles)

IsArray(v) == v.kind = "array"

\* rawAnalyzed?.files
FilesOf(v) ==
  IF v.kind = "object" THEN v.value.files ELSE JsValue("undefined", Null)

\* the normalisation of analyzedFiles before Step 3
NormalizeAnalyzedFiles(raw) ==
  IF IsArray(raw) THEN raw.value
  ELSE IF IsArray(FilesOf(raw)) THEN FilesOf(raw).value
  ELSE <<>>

\* analyzedFiles.filter(f => issues.some(issue => issue.filePath === f))
FilesToRefactor(analyzedFiles, issues) ==
  SelectSeq(analyzedFiles,
            LAMBDA f : \E k \in 1..Len(issues) : issues[k].filePath = f)

REFACTOR_LIMIT == 5

\* Step 3: refactoredResults, one entry per file of slice(0, 5)
RefactoredResults(analyzedFiles, issues) ==
  IF Len(analyzedFiles) > 0
  THEN LET todo == FilesToRefactor(analyzedFiles, issues)
       IN  [k \in 1..Min(REFACTOR_LIMIT, Len(todo)) |-> [file |-> todo[k]]]
  ELSE <<>>

\* the results object Step 4 stores with status completed
ResultsOf(res) ==
  LET analyzedFiles == NormalizeAnalyzedFiles(RawAnalyzed(res))
  IN  [totalFiles    |-> res.totalFiles,
       analyzedFiles |-> analyzedFiles,
       refactored    |-> RefactoredResults(analyzedFiles, res.issues)]

\* Step 1: the record is marked, the engine is entered
AnalysisWorkerStart ==
  /\ worker = "analysisWorker"
  /\ wpc = "start"
  /\ analysis' = [analysis EXCEPT !.status = "processing", !.progress = 10]
  /\ wpc' = "engine"
  /\ pc' = "detect"
  /\ UNCHANGED <<fs, mode, cb, framework, dir, eslint, files, idx, allIssues,
                 fileAnalyses, progress, fileCalls, fileTexts, result, thrown, trace>>
  /\ UNCHANGED <<worker, projectFound, issueDocs, attempt, jobResult, inflight, cbLog>>
  /\ UNCHANGED svcVars
  /\ UNCHANGED sideVars

\* the documents Step 4 hands to Issue.insertMany
AnalysisWorkerDocs(issues) ==
  [k \in 1..Len(issues) |->
     Spread(issues[k], [project |-> ProjectId, analysis |-> AnalysisId])]

\* Step 4, one attempt of runWithRetry: the transaction commits, or it
\* meets a write conflict and is aborted; the last attempt's conflict
\* reaches the catch block
AnalysisWorkerPersist ==
  /\ worker = "analysisWorker"
  /\ wpc = "engine"
  /\ pc = "done"
  /\ \E conflict \in BOOLEAN :
       IF ~conflict
       THEN LET ins == InsertMany(AnalysisWorkerDocs(result.issues), FALSE)
            IN  /\ issueDocs' = issueDocs \o ins.inserted
                /\ analysis' = [analysis EXCEPT !.status = "completed", !.progress = 100,
                                                !.results = ResultsOf(result)]
                /\ wpc' = "ended"
                /\ jobResult' = "resolved"
                /\ attempt' = attempt
       ELSE IF attempt < MAX_RETRIES
       THEN /\ attempt' = attempt + 1
            /\ UNCHANGED <<issueDocs, analysis, wpc, jobResult>>
       ELSE /\ analysis' = [analysis EXCEPT !.status = "failed",
                                            !.error = "Write conflict"]
            /\ wpc' = "ended"
            /\ jobResult' = "rejected"
            /\ UNCHANGED <<issueDocs, attempt>>
  /\ UNCHANGED engineVars
  /\ UNCHANGED <<worker, projectFound, inflight, cbLog>>
  /\ UNCHANGED svcVars
  /\ UNCHANGED sideVars

\* the catch block after analyzeCodebase rejected
AnalysisWorkerCatch ==
  /\ worker = "analysisWorker"
  /\ wpc = "engine"
  /\ pc = "threw"
  /\ analysis' = [analysis EXCEPT !.status = "failed", !.error = thrown]
  /\ wpc' = "ended"
  /\ jobResult' = "rejected"
  /\ UNCHANGED engineVars
  /\ UNCHANGED <<worker, projectFound, issueDocs, attempt, inflight, cbLog>>
  /\ UNCHANGED svcVars
  /\ UNCHANGED sideVars

(***************************************************************************)
(* The processor of src/websocket/analysisSocket.ts                        *)
(***************************************************************************)
\* Project.findById and the throw when it finds nothing, else the engine
SocketWorkerStart ==
  /\ worker = "socketWorker"
  /\ wpc = "start"
  /\ IF projectFound
     THEN /\ wpc' = "engine"
          /\ pc' = "detect"
          /\ UNCHANGED <<analysis, jobResult>>
     ELSE /\ analysis' = [analysis EXCEPT !.status = "failed",
                                          !.error = "Project not found",
                                          !.progress = 100]
          /\ wpc' = "ended"
          /\ jobResult' = "rejected"
          /\ pc' = pc
  /\ UNCHANGED <<fs, mode, cb, framework, dir, eslint, files, idx, allIssues,
                 fileAnalyses, progress, fileCalls, fileTexts, result, thrown, trace>>
  /\ UNCHANGED <<worker, projectFound, issueDocs, attempt, inflight, cbLog>>
  /\ UNCHANGED svcVars
  /\ UNCHANGED sideVars

SocketWorkerDocs(issues) ==
  [k \in 1..Len(issues) |-> Spread(issues[k], [analysis |-> AnalysisId])]

\* Issue.insertMany and the update to completed, or the catch block
SocketWorkerPersist ==
  /\ worker = "socketWorker"
  /\ wpc = "engine"
  /\ pc = "done"
  /\ LET ins == InsertMany(SocketWorkerDocs(result.issues), TRUE)
     IN  IF ins.threw
         THEN /\ analysis' = [analysis EXCEPT !.status = "failed",
                                              !.error = ins.message,
                                              !.progress = 100]
              /\ jobResult' = "rejected"
              /\ issueDocs' = issueDocs
         ELSE /\ issueDocs' = issueDocs \o ins.inserted
              /\ analysis' = [analysis EXCEPT !.status = "completed", !.progress = 100]
              /\ jobResult' = "resolved"
  /\ wpc' = "ended"
  /\ UNCHANGED engineVars
  /\ UNCHANGED <<worker, projectFound, attempt, inflight, cbLog>>
  /\ UNCHANGED svcVars
  /\ UNCHANGED sideVars

\* the catch block after analyzeCodebase rejected
SocketWorkerCatch ==
  /\ worker = "socketWorker"
  /\ wpc = "engine"
  /\ pc = "threw"
  /\ analysis' = [analysis EXCEPT !.status = "failed", !.error = thrown,
                                  !.progress = 100]
  /\ wpc' = "ended"
  /\ jobResult' = "rejected"
  /\ UNCHANGED engineVars
  /\ UNCHANGED <<worker, projectFound, issueDocs, attempt, inflight, cbLog>>
  /\ UNCHANGED svcVars
  /\ UNCHANGED sideVars

\* one callback's Analysis.findByIdAndUpdate lands; the engine does not
\* await the callback, so the writes land in any order, at any time
RemoveAt(sq, k) == SubSeq(sq, 1, k - 1) \o SubSeq(sq, k + 1, Len(sq))

ProgressWrite ==
  /\ \E k \in 1..Len(inflight) :
       /\ analysis' = [analysis EXCEPT !.progress = inflight[k]]
       /\ inflight' = RemoveAt(inflight, k)
  /\ UNCHANGED engineVars
  /\ UNCHANGED <<worker, wpc, projectFound, issueDocs, attempt, jobResult, cbLog>>
  /\ UNCHANGED svcVars
  /\ UNCHANGED sideVars

WorkerNext ==
  \/ AnalysisWorkerStart
  \/ AnalysisWorkerPersist
  \/ AnalysisWorkerCatch
  \/ SocketWorkerStart
  \/ SocketWorkerPersist
  \/ SocketWorkerCatch
  \/ ProgressWrite
  \/ EngineNext

\* one execution of a job by either processor
InitWorker ==
  /\ fs \in Layouts
  /\ worker \in Workers
  /\ cb = worker
  /\ mode = "run"
  /\ pc = "idle"
  /\ framework = Null
  /\ dir = <<>>
  /\ eslint = Nil
  /\ files = <<>>
  /\ idx = 0
  /\ allIssues = <<>>
  /\ fileAnalyses = <<>>
  /\ progress = <<>>
  /\ fileCalls = <<>>
  /\ fileTexts = <<>>
  /\ result = Nil
  /\ thrown = Null
  /\ wpc = "start"
  /\ projectFound \in BOOLEAN
  /\ analysis = PendingAnalysis
  /\ issueDocs = <<>>
  /\ inflight = <<>>
  /\ cbLog = <<>>
  /\ ServiceIdle
  /\ SideIdle
  /\ trace = <<>>
  /\ attempt = 1
  /\ jobResult = Null

SpecWorker == InitWorker /\ [][WorkerNext]_vars

(***************************************************************************)
(* AnalysisService.startAnalysis and cancelAnalysis, the 'analysis' queue   *)
(* and the processor's writes of the status, one action per stretch        *)
(* between awaits, for the analyses of one project                         *)
(***************************************************************************)
\* number of analyses started
MaxAnalyses == 2

\* number of service calls made
MaxCalls == 3

Users == {"u1", "u2"}

\* the users who start analyses
Starters == {"u1"}

\* status: { $in: ['pending', 'in-progress'] }
DuplicateStatuses == {"pending", "in-progress"}

\* getJobs(['waiting', 'active', 'delayed', 'paused'])
CancellableStates == {"waiting", "active", "delayed", "paused"}

\* jobOptions.attempts
JobAttempts == 3

\* the Worker option concurrency
Concurrency(w) == IF w = "analysisWorker" THEN 2 ELSE 1

\* the documents of the collection a query outside the transaction sees
Visible(a) == a \in 1..Len(records) /\ records[a].committed

\* Analysis.findOne({ project, status: { $in: [...] } })
FindDuplicate == \E a \in 1..Len(records) : Visible(a) /\ records[a].status \in DuplicateStatuses

NonTerminal == {a \in 1..Len(records) : Visible(a) /\ records[a].status \in {"pending", "processing"}}

CallsMade == Cardinality(pending) + Cardinality(replies)

Single(r) == {r}

Reply(c, outcome) == [op |-> c.op, user |-> c.user, target |-> c.target, outcome |-> outcome,
                      running |-> c.running, doc |-> c.doc, job |-> c.job,
                      docAfter |-> IF c.target \in 1..Len(records) THEN records[c.target] ELSE Nil,
                      jobAfter |-> IF c.target \in 1..Len(jobs) THEN jobs[c.target].state
                                   ELSE "none"]

\* what the engine, the processor and the callbacks work on
runVars == <<engineVars, dbVars, inflight, cbLog>>

\* startAnalysis is called; its findOne answers
StartCheck ==
  /\ CallsMade < MaxCalls
  /\ \E u \in Starters :
       LET c == [id |-> CallsMade + 1, op |-> "start", user |-> u, target |-> 0,
                 at |-> "create", running |-> NonTerminal # {}, doc |-> Nil,
                 job |-> "none"]
       IN  IF FindDuplicate
           THEN /\ replies' = replies \cup Single(Reply(c, "409"))
                /\ pending' = pending
           ELSE /\ pending' = pending \cup {c}
                /\ replies' = replies
  /\ UNCHANGED <<records, jobs>>
  /\ UNCHANGED runVars
  /\ UNCHANGED sideVars

\* new Analysis({...}).save({ session }) and analysisQueue.add(...): the
\* document stays inside the transaction, the job is in the queue
StartEnqueue ==
  /\ \E c \in pending :
       /\ c.op = "start" /\ c.at = "create"
       /\ Len(records) < MaxAnalyses
       /\ records' = Append(records, [triggeredBy |-> c.user, status |-> "pending",
                                      progress |-> 0, error |-> Null,
                                      committed |-> FALSE])
       /\ jobs' = Append(jobs, [state |-> "waiting", attemptsMade |-> 0, at |-> "none"])
       /\ pending' = (pending \ {c}) \cup {[c EXCEPT !.at = "commit", !.target = Len(records) + 1]}
  /\ UNCHANGED replies
  /\ UNCHANGED runVars
  /\ UNCHANGED sideVars

\* created.save({ session }) and session.commitTransaction()
StartCommit ==
  /\ \E c \in pending :
       /\ c.op = "start" /\ c.at = "commit"
       /\ records' = [records EXCEPT ![c.target].committed = TRUE]
       /\ replies' = replies \cup Single([Reply(c, "created") EXCEPT
                                        !.docAfter = records'[c.target]])
       /\ pending' = pending \ {c}
  /\ UNCHANGED jobs
  /\ UNCHANGED runVars
  /\ UNCHANGED sideVars

\* an await of the try block rejects: session.abortTransaction() and
\* ApiError(500); a job already added stays in the queue
StartAbort ==
  /\ \E c \in pending :
       /\ c.op = "start"
       /\ replies' = replies \cup Single(Reply(c, "500"))
       /\ pending' = pending \ {c}
  /\ UNCHANGED <<records, jobs>>
  /\ UNCHANGED runVars
  /\ UNCHANGED sideVars

\* the Worker takes a waiting job and locks it
JobPick ==
  /\ \E a \in 1..Len(jobs) :
       /\ jobs[a].state = "waiting"
       /\ Cardinality({b \in 1..Len(jobs) : jobs[b].state = "active"}) < Concurrency(worker)
       /\ jobs' = [jobs EXCEPT ![a] = [state |-> "active",
                                       attemptsMade |-> jobs[a].attemptsMade + 1,
                                       at |-> "start"]]
  /\ UNCHANGED <<records, pending, replies>>
  /\ UNCHANGED runVars
  /\ UNCHANGED sideVars

\* findByIdAndUpdate leaves a document it does not find alone
UpdateRecord(a, st, pct, err) ==
  IF Visible(a)
  THEN [records EXCEPT ![a].status = st, ![a].progress = pct, ![a].error = err]
  ELSE records

\* the processor's first await: analysisWorker marks the start, the
\* processor of analysisSocket looks the project up
JobStart ==
  /\ \E a \in 1..Len(jobs) :
       /\ jobs[a].state = "active" /\ jobs[a].at = "start"
       /\ records' = IF worker = "analysisWorker"
                     THEN UpdateRecord(a, "processing", 10, records[a].error)
                     ELSE records
       /\ jobs' = [jobs EXCEPT ![a].at = "run"]
  /\ UNCHANGED <<pending, replies>>
  /\ UNCHANGED runVars
  /\ UNCHANGED sideVars

\* the processor's completion write; the job completes
JobComplete ==
  /\ \E a \in 1..Len(jobs) :
       /\ jobs[a].state = "active" /\ jobs[a].at = "run"
       /\ records' = UpdateRecord(a, "completed", 100, records[a].error)
       /\ jobs' = [jobs EXCEPT ![a].state = "completed", ![a].at = "none"]
  /\ UNCHANGED <<pending, replies>>
  /\ UNCHANGED runVars
  /\ UNCHANGED sideVars

\* the processor's catch: the failure write and the rethrow; the queue
\* retries the job after its backoff while attempts are left
JobFail ==
  /\ \E a \in 1..Len(jobs) :
       /\ jobs[a].state = "active" /\ jobs[a].at = "run"
       /\ records' = UpdateRecord(a, "failed", records[a].progress, "error.message")
       /\ jobs' = [jobs EXCEPT ![a].state = IF jobs[a].attemptsMade < JobAttempts
                                            THEN "delayed" ELSE "failed",
                               ![a].at = "none"]
  /\ UNCHANGED <<pending, replies>>
  /\ UNCHANGED runVars
  /\ UNCHANGED sideVars

\* the backoff of a delayed job elapses
JobRetry ==
  /\ \E a \in 1..Len(jobs) :
       /\ jobs[a].state = "delayed"
       /\ jobs' = [jobs EXCEPT ![a].state = "waiting"]
  /\ UNCHANGED <<records, pending, replies>>
  /\ UNCHANGED runVars
  /\ UNCHANGED sideVars

\* cancelAnalysis is called; Analysis.findById answers and the two checks
\* run
CancelFind ==
  /\ CallsMade < MaxCalls
  /\ \E u \in Users, a \in 1..Len(records) :
       LET c == [id |-> CallsMade + 1, op |-> "cancel", user |-> u, target |-> a,
                 at |-> "jobs", running |-> NonTerminal # {},
                 doc |-> IF Visible(a) THEN records[a] ELSE Nil,
                 job |-> jobs[a].state]
           rejected == ~Visible(a) \/ records[a].triggeredBy # u
                       \/ records[a].status \in {"completed", "failed"}
       IN  IF rejected
           THEN /\ replies' = replies \cup Single(Reply(c, IF ~Visible(a) THEN "404"
                                              ELSE IF records[a].triggeredBy # u THEN "403"
                                              ELSE "400"))
                /\ pending' = pending
           ELSE /\ pending' = pending \cup {c}
                /\ replies' = replies
  /\ UNCHANGED <<records, jobs>>
  /\ UNCHANGED runVars
  /\ UNCHANGED sideVars

\* analysisQueue.getJobs([...]) and jobs.find(...)
CancelGetJobs ==
  /\ \E c \in pending :
       /\ c.op = "cancel" /\ c.at = "jobs"
       /\ pending' = (pending \ {c}) \cup
                   {[c EXCEPT !.at = IF jobs[c.target].state \in CancellableStates
                                     THEN "remove" ELSE "save"]}
  /\ UNCHANGED <<records, jobs, replies>>
  /\ UNCHANGED runVars
  /\ UNCHANGED sideVars

\* job.remove(): the queue refuses to remove a job a worker holds the lock
\* of, and the call rejects
CancelRemove ==
  /\ \E c \in pending :
       /\ c.op = "cancel" /\ c.at = "remove"
       /\ IF jobs[c.target].state = "active"
          THEN /\ replies' = replies \cup Single(Reply(c, "500"))
               /\ pending' = pending \ {c}
               /\ jobs' = jobs
          ELSE /\ jobs' = [jobs EXCEPT ![c.target].state = "removed"]
               /\ pending' = (pending \ {c}) \cup {[c EXCEPT !.at = "save"]}
               /\ replies' = replies
  /\ UNCHANGED records
  /\ UNCHANGED runVars
  /\ UNCHANGED sideVars

\* analysis.status = 'failed'; analysis.error = 'Cancelled by user';
\* analysis.save()
CancelSave ==
  /\ \E c \in pending :
       /\ c.op = "cancel" /\ c.at = "save"
       /\ records' = [records EXCEPT ![c.target].status = "failed",
                                     ![c.target].error = "Cancelled by user"]
       /\ replies' = replies \cup Single([Reply(c, "ok") EXCEPT
                                        !.docAfter = records'[c.target]])
       /\ pending' = pending \ {c}
  /\ UNCHANGED jobs
  /\ UNCHANGED runVars
  /\ UNCHANGED sideVars

ServiceNext ==
  \/ StartCheck
  \/ StartEnqueue
  \/ StartCommit
  \/ StartAbort
  \/ JobPick
  \/ JobStart
  \/ JobComplete
  \/ JobFail
  \/ JobRetry
  \/ CancelFind
  \/ CancelGetJobs
  \/ CancelRemove
  \/ CancelSave

\* no analysis yet, either processor registered on the queue
InitService ==
  /\ ServiceIdle
  /\ SideIdle
  /\ trace = <<>>
  /\ worker \in Workers
  /\ fs = Layout("missing", 0)
  /\ mode = "plain"
  /\ cb = worker
  /\ pc = "idle"
  /\ framework = Null
  /\ dir = <<>>
  /\ eslint = Nil
  /\ files = <<>>
  /\ idx = 0
  /\ allIssues = <<>>
  /\ fileAnalyses = <<>>
  /\ progress = <<>>
  /\ fileCalls = <<>>
  /\ fileTexts = <<>>
  /\ result = Nil
  /\ thrown = Null
  /\ wpc = "none"
  /\ projectFound = TRUE
  /\ analysis = Nil
  /\ issueDocs = <<>>
  /\ inflight = <<>>
  /\ cbLog = <<>>
  /\ attempt = 0
  /\ jobResult = Null

SpecService == InitService /\ [][ServiceNext]_vars

(***************************************************************************)
(* ComplexityCalculator: the two traversals, one action per visitor call   *)
(***************************************************************************)
\* depth of the deepest chain of arbitrary nodes
MaxNest == 2

\* depth of the deepest chain of if statements
MaxIfs == 4

Label(type, attr) == [type |-> type, attr |-> attr]

\* the node types the visitors tell apart, and one they all ignore
AstLabels ==
  {Label(type, Null) :
     type \in {"IfStatement", "ForStatement", "ForInStatement", "ForOfStatement",
               "WhileStatement", "DoWhileStatement", "SwitchStatement", "CatchClause",
               "ConditionalExpression", "SwitchCase", "BlockStatement"}}
  \cup {Label("SwitchCase", "test")}
  \cup {Label("LogicalExpression", op) : op \in {"&&", "||", "??"}}

\* nodes nested in each other, outermost first, as a list of children
RECURSIVE ChainOf(_)
ChainOf(labels) ==
  IF labels = <<>> THEN <<>>
  ELSE <<Node(labels[1].type, labels[1].attr, ChainOf(Tail(labels)))>>

Wrap(kids) == Node("File", Null, <<Node("Program", Null, kids)>>)

\* if (a) {} else if (b) {}
AstIfElseIf ==
  Wrap(<<Node("IfStatement", Null,
           << Leaf("Identifier"), Leaf("BlockStatement"),
              Node("IfStatement", Null, <<Leaf("Identifier"), Leaf("BlockStatement")>>) >>)>>)

Trees ==
  SampleAsts \cup {AstIfElseIf}
  \cup {Wrap(ChainOf(ls)) : ls \in UNION {[1..n -> AstLabels] : n \in 0..MaxNest}}
  \cup {Wrap(ChainOf(<<a>>) \o ChainOf(<<b>>)) : a, b \in AstLabels}
  \cup {Wrap(ChainOf([k \in 1..n |-> Label("IfStatement", Null)])) : n \in 0..MaxIfs}

\* traverse(ast, visitors): the visitor calls in order, each with the node
\* and the types of path's ancestors, outermost first
RECURSIVE Visits(_, _)
RECURSIVE VisitsOfAll(_, _)
Visits(n, above) ==
  <<[phase |-> "enter", type |-> n.type, attr |-> n.attr, above |-> above]>>
  \o VisitsOfAll(n.kids, Append(above, n.type))
  \o <<[phase |-> "exit", type |-> n.type, attr |-> n.attr, above |-> above]>>

VisitsOfAll(kids, above) ==
  IF kids = <<>> THEN <<>>
  ELSE Visits(kids[1], above) \o VisitsOfAll(Tail(kids), above)

\* t.isIfStatement || t.isForStatement || t.isWhileStatement ||
\* t.isSwitchStatement
IsNesting(n) ==
  n.type \in {"IfStatement", "ForStatement", "WhileStatement", "SwitchStatement"}

\* an exit visitor that leaves the counter alone
NestingKept(nesting, n) == nesting

\* the exit visitor's effect on nesting
NestingAfterExit(nesting, n) == IF IsNesting(n) THEN nesting - 1 ELSE nesting

IsLogical(n) == n.type = "LogicalExpression" /\ n.attr \in {"&&", "||"}

TravInit(fn, ast) ==
  [fn |-> fn, ast |-> ast, todo |-> Visits(ast, <<>>), complexity |-> 1,
   cognitive |-> 0, nesting |-> 0, seen |-> <<>>, value |-> Null]

\* the value returned once traverse has returned
ValueReturned(t, rest) ==
  IF rest # <<>> THEN Null
  ELSE IF t.fn = "calculate" THEN t.complexity
  ELSE t.cognitive

\* calculate: the visitor of the node entered, if it has one; no visitor
\* runs on exit
CalculateVisit ==
  /\ trav # Nil
  /\ trav.fn = "calculate"
  /\ trav.todo # <<>>
  /\ LET v    == Head(trav.todo)
         rest == Tail(trav.todo)
         t    == [trav EXCEPT !.complexity =
                                  IF v.phase = "enter" /\ IsDecisionPoint(v) THEN @ + 1 ELSE @,
                              !.todo = rest]
     IN  trav' = [t EXCEPT !.value = ValueReturned(t, rest)]
  /\ UNCHANGED <<txn, factory, project>>
  /\ UNCHANGED <<runVars, svcVars>>

\* calculateCognitive: enter(path)
CognitiveEnter ==
  /\ trav # Nil
  /\ trav.fn = "calculateCognitive"
  /\ trav.todo # <<>>
  /\ Head(trav.todo).phase = "enter"
  /\ LET v == Head(trav.todo)
     IN  trav' = [trav EXCEPT
                    !.seen = Append(@, [type |-> v.type, above |-> v.above,
                                        nesting |-> trav.nesting]),
                    !.cognitive = @ + (IF IsNesting(v) THEN 1 + trav.nesting ELSE 0)
                                    + (IF IsLogical(v) THEN 1 ELSE 0),
                    !.nesting = IF IsNesting(v) THEN @ + 1 ELSE @,
                    !.todo = Tail(@)]
  /\ UNCHANGED <<txn, factory, project>>
  /\ UNCHANGED <<runVars, svcVars>>

\* calculateCognitive: exit(path), and the return after the last one
CognitiveExit ==
  /\ trav # Nil
  /\ trav.fn = "calculateCognitive"
  /\ trav.todo # <<>>
  /\ Head(trav.todo).phase = "exit"
  /\ LET v    == Head(trav.todo)
         rest == Tail(trav.todo)
         t    == [trav EXCEPT !.nesting = NestingAfterExit(@, v), !.todo = rest]
     IN  trav' = [t EXCEPT !.value = ValueReturned(t, rest)]
  /\ UNCHANGED <<txn, factory, project>>
  /\ UNCHANGED <<runVars, svcVars>>

TraverseNext == CalculateVisit \/ CognitiveEnter \/ CognitiveExit

\* the engine, the processors and the service at rest
RunIdle ==
  /\ worker = "none"
  /\ fs = Layout("missing", 0)
  /\ mode = "plain"
  /\ cb = "none"
  /\ pc = "idle"
  /\ framework = Null
  /\ dir = <<>>
  /\ eslint = Nil
  /\ files = <<>>
  /\ idx = 0
  /\ allIssues = <<>>
  /\ fileAnalyses = <<>>
  /\ progress = <<>>
  /\ fileCalls = <<>>
  /\ fileTexts = <<>>
  /\ result = Nil
  /\ thrown = Null
  /\ wpc = "none"
  /\ projectFound = TRUE
  /\ analysis = Nil
  /\ issueDocs = <<>>
  /\ inflight = <<>>
  /\ cbLog = <<>>
  /\ attempt = 0
  /\ jobResult = Null
  /\ trace = <<>>
  /\ ServiceIdle

\* either traversal is about to run on a tree
InitTraverse ==
  /\ RunIdle
  /\ \E fn \in {"calculate", "calculateCognitive"}, ast \in Trees : trav = TravInit(fn, ast)
  /\ txn = Nil
  /\ factory = Nil
  /\ project = Nil

SpecTraverse == InitTraverse /\ [][TraverseNext]_vars

(***************************************************************************)
(* runWithRetry (jobs/analysisWorker.ts): a transaction body run in a      *)
(* session, retried on write conflicts.                                    *)
(***************************************************************************)
\* an error message is a sequence of words; an error may carry no message
Err(words, hasMessage) == [message |-> words, hasMessage |-> hasMessage]

\* String.prototype.includes on word sequences
Includes(s, sub) ==
  \E i \in 0..(Len(s) - Len(sub)) : SubSeq(s, i + 1, i + Len(sub)) = sub

WriteConflict == <<"Write", "conflict">>

\* what fn(session) or commitTransaction() may reject with
Failures ==
  {Err(<<"Write", "conflict", "during", "update">>, TRUE),
   Err(<<"Caused", "by", "Write", "conflict">>, TRUE),
   Err(<<"WriteConflict">>, TRUE),
   Err(<<"Validation", "failed">>, TRUE),
   Err(<<>>, FALSE)}

\* ClientSession.abortTransaction() after commitTransaction() was called
AbortAfterCommit ==
  Err(<<"Cannot", "call", "abortTransaction", "after", "calling", "commitTransaction">>, TRUE)

\* error?.message?.includes('Write conflict')
IsConflict(error) == error.hasMessage /\ Includes(error.message, WriteConflict)

Session(state, open) == [tx |-> state, open |-> open]

RetryInit ==
  [pc |-> "start", attempt |-> 1, sessions |-> <<>>, bodies |-> 0,
   error |-> Nil, failed |-> <<>>, outcome |-> "running", thrown |-> Nil,
   delays |-> <<>>]

SetLast(s, v) == [s EXCEPT ![Len(s)] = v]

\* mongoose.startSession(); session.startTransaction()
StartSession ==
  /\ txn # Nil /\ txn.pc = "start"
  /\ txn.attempt <= MAX_RETRIES
  /\ txn' = [txn EXCEPT !.pc = "body",
                        !.sessions = Append(@, Session("active", TRUE))]
  /\ UNCHANGED <<trav, factory, project>>
  /\ UNCHANGED <<runVars, svcVars>>

\* await fn(session)
RunBody ==
  /\ txn # Nil /\ txn.pc = "body"
  /\ \/ txn' = [txn EXCEPT !.pc = "commit", !.bodies = @ + 1]
     \/ \E f \in Failures :
          txn' = [txn EXCEPT !.pc = "catch", !.bodies = @ + 1, !.error = f,
                             !.failed = Append(@, [at |-> "body", error |-> f])]
  /\ UNCHANGED <<trav, factory, project>>
  /\ UNCHANGED <<runVars, svcVars>>

\* await session.commitTransaction(); return
\* (the driver marks the transaction committed whether or not the command
\* succeeded)
CommitTransaction ==
  /\ txn # Nil /\ txn.pc = "commit"
  /\ \/ txn' = [txn EXCEPT !.pc = "done", !.outcome = "returned",
                           !.sessions = SetLast(@, Session("committed", TRUE))]
     \/ \E f \in Failures :
          txn' = [txn EXCEPT !.pc = "catch", !.error = f,
                             !.failed = Append(@, [at |-> "commit", error |-> f]),
                             !.sessions = SetLast(@, Session("commitFailed", TRUE))]
  /\ UNCHANGED <<trav, factory, project>>
  /\ UNCHANGED <<runVars, svcVars>>

\* catch (error): isConflict; abortTransaction(); endSession(); retry or throw
CatchFailure ==
  /\ txn # Nil /\ txn.pc = "catch"
  /\ LET last == txn.sessions[Len(txn.sessions)]
         isConflict == IsConflict(txn.error)
     IN IF last.tx # "active"
          THEN \* abortTransaction() rejects; the rest of the handler is skipped
               txn' = [txn EXCEPT !.pc = "done", !.outcome = "threw",
                                  !.thrown = AbortAfterCommit]
          ELSE IF isConflict /\ txn.attempt < MAX_RETRIES
            THEN txn' = [txn EXCEPT !.pc = "start", !.attempt = @ + 1,
                                    !.sessions = SetLast(@, Session("aborted", FALSE)),
                                    !.delays = Append(@, 500 * txn.attempt)]
            ELSE txn' = [txn EXCEPT !.pc = "done", !.outcome = "threw",
                                    !.thrown = txn.error,
                                    !.sessions = SetLast(@, Session("aborted", FALSE))]
  /\ UNCHANGED <<trav, factory, project>>
  /\ UNCHANGED <<runVars, svcVars>>

RetryNext == StartSession \/ RunBody \/ CommitTransaction \/ CatchFailure

InitRetry ==
  /\ RunIdle
  /\ txn = RetryInit
  /\ trav = Nil
  /\ factory = Nil
  /\ project = Nil

SpecRetry == InitRetry /\ [][RetryNext]_vars

(***************************************************************************)
(* AIAdapterFactory (adapters/ai/AIAdapterFactory.ts)                      *)
(***************************************************************************)
MaxFactoryCalls == 4

\* provider strings, as sequences of characters
Providers ==
  {<<"o", "p", "e", "n", "a", "i">>, <<"O", "p", "e", "n", "A", "I">>,
   <<"c", "l", "a", "u", "d", "e">>, <<"G", "o", "o", "g", "l", "e">>,
   <<"g", "e", "m", "i", "n", "i">>, <<"x", "a", "i">>}

AdapterOptions == {"keyA", "keyB"}

LowerChar(c) ==
  CASE c = "O" -> "o" [] c = "A" -> "a" [] c = "I" -> "i" [] c = "G" -> "g"
    [] OTHER -> c

\* String.prototype.toLowerCase
ToLowerCase(s) == [k \in 1..Len(s) |-> LowerChar(s[k])]

\* the switch of create: the adapter class constructed for a provider
AdapterClass(provider) ==
  LET p == ToLowerCase(provider)
  IN  CASE p = <<"o", "p", "e", "n", "a", "i">> -> "OpenAIAdapter"
        [] p \in {<<"c", "l", "a", "u", "d", "e">>,
                  <<"a", "n", "t", "h", "r", "o", "p", "i", "c">>} -> "ClaudeAdapter"
        [] p = <<"o", "l", "l", "a", "m", "a">> -> "OllamaAdapter"
        [] p \in {<<"g", "e", "m", "i", "n", "i">>,
                  <<"g", "o", "o", "g", "l", "e">>} -> "GeminiAdapter"
        [] OTHER -> "OpenAIAdapter"

\* new XAdapter(options...): the default branch passes no options
NewAdapter(id, provider, options) ==
  LET known == ToLowerCase(provider) \in
                 {<<"o", "p", "e", "n", "a", "i">>, <<"c", "l", "a", "u", "d", "e">>,
                  <<"a", "n", "t", "h", "r", "o", "p", "i", "c">>,
                  <<"o", "l", "l", "a", "m", "a">>, <<"g", "e", "m", "i", "n", "i">>,
                  <<"g", "o", "o", "g", "l", "e">>}
  IN  [id |-> id, class |-> AdapterClass(provider),
       options |-> IF known THEN options ELSE Null]

\* Map.prototype.set
MapSet(map, key, value) ==
  [k \in DOMAIN map \cup {key} |-> IF k = key THEN value ELSE map[k]]

EmptyMap == [k \in {} |-> Null]

FactoryInit == [adapters |-> EmptyMap, made |-> 0, log |-> <<>>]

\* AIAdapterFactory.create(provider, options)
Create ==
  /\ factory # Nil /\ Len(factory.log) < MaxFactoryCalls
  /\ \E provider \in Providers, options \in AdapterOptions :
       IF provider \in DOMAIN factory.adapters
       THEN factory' = [factory EXCEPT
              !.log = Append(@, [op |-> "create", provider |-> provider,
                                 options |-> options,
                                 returned |-> factory.adapters[provider],
                                 cached |-> DOMAIN factory.adapters])]
       ELSE LET adapter == NewAdapter(factory.made + 1, provider, options)
            IN  factory' = [factory EXCEPT
                  !.adapters = MapSet(@, provider, adapter),
                  !.made = @ + 1,
                  !.log = Append(@, [op |-> "create", provider |-> provider,
                                     options |-> options, returned |-> adapter,
                                     cached |-> DOMAIN factory.adapters \cup {provider}])]
  /\ UNCHANGED <<trav, txn, project>>
  /\ UNCHANGED <<runVars, svcVars>>

\* AIAdapterFactory.clearCache()
ClearCache ==
  /\ factory # Nil /\ Len(factory.log) < MaxFactoryCalls
  /\ factory' = [factory EXCEPT
       !.adapters = EmptyMap,
       !.log = Append(@, [op |-> "clearCache", provider |-> <<>>, options |-> Null,
                          returned |-> Nil, cached |-> {}])]
  /\ UNCHANGED <<trav, txn, project>>
  /\ UNCHANGED <<runVars, svcVars>>

FactoryNext == Create \/ ClearCache

InitFactory ==
  /\ RunIdle
  /\ factory = FactoryInit
  /\ trav = Nil
  /\ txn = Nil
  /\ project = Nil

SpecFactory == InitFactory /\ [][FactoryNext]_vars

(***************************************************************************)
(* ProjectService.createProject / addMember (services/AuthService.ts)      *)
(***************************************************************************)
MaxMemberCalls == 3

\* hexadecimal id strings as sequences of characters: the canonical
\* spelling of three users, and an upper-case spelling of two of them
CanonicalIds == {<<"a", "1">>, <<"b", "2">>, <<"c", "3">>}

IdStrings == CanonicalIds \cup {<<"A", "1">>, <<"B", "2">>}

HexLower(c) ==
  CASE c = "A" -> "a" [] c = "B" -> "b" [] c = "C" -> "c" [] OTHER -> c

\* casting a hexadecimal string to an ObjectId: the bytes it spells
ObjectId(s) == [bytes |-> [k \in 1..Len(s) |-> HexLower(s[k])]]

\* ObjectId.prototype.toString: lower-case hexadecimal
IdToString(oid) == oid.bytes

MemberRoles == {"owner", "maintainer", "viewer"}

\* role values a request body may carry
RequestedRoles == MemberRoles \cup {"admin"}

\* Project.create in createProject
CreateProject(owner) ==
  [owner |-> ObjectId(owner),
   members |-> <<[user |-> ObjectId(owner), role |-> "owner"]>>,
   calls |-> 0, last |-> Nil]

\* project.members.find(m => m.user.toString() === userId): its position
FindMember(members, userId) ==
  LET hits == {k \in 1..Len(members) : IdToString(members[k].user) = userId}
  IN  IF hits = {} THEN 0 ELSE CHOOSE k \in hits : \A j \in hits : k <= j

HasWriteAccess(p, userId) ==
  \/ IdToString(p.owner) = userId
  \/ LET k == FindMember(p.members, userId)
     IN  k # 0 /\ p.members[k].role \in {"owner", "maintainer"}

\* the members array after the find / role update / push
MembersAfter(members, userId, role) ==
  LET k == FindMember(members, userId)
  IN  IF k # 0 THEN [members EXCEPT ![k].role = role]
      ELSE Append(members, [user |-> ObjectId(userId), role |-> role])

\* project.save(): the schema's enum validation of every member's role
SaveValid(members) == \A k \in 1..Len(members) : members[k].role \in MemberRoles

\* addMember(projectId, ownerId, userId, role); ownerId is the id of the
\* authenticated user
AddMember ==
  /\ project # Nil /\ project.calls < MaxMemberCalls
  /\ \E ownerId \in CanonicalIds, userId \in IdStrings, role \in RequestedRoles :
       LET after == MembersAfter(project.members, userId, role)
           outcome == IF ~HasWriteAccess(project, ownerId) THEN "AuthorizationError"
                      ELSE IF ~SaveValid(after) THEN "ValidationError"
                      ELSE "saved"
           stored == IF outcome = "saved" THEN after ELSE project.members
       IN  project' = [project EXCEPT
             !.members = stored,
             !.calls = @ + 1,
             !.last = [ownerId |-> ownerId, userId |-> userId, role |-> role,
                       outcome |-> outcome, before |-> project.members,
                       writer |-> HasWriteAccess(project, ownerId)]]
  /\ UNCHANGED <<trav, txn, factory>>
  /\ UNCHANGED <<runVars, svcVars>>

ProjectNext == AddMember

InitProject ==
  /\ RunIdle
  /\ \E owner \in CanonicalIds : project = CreateProject(owner)
  /\ trav = Nil
  /\ txn = Nil
  /\ factory = Nil

SpecProject == InitProject /\ [][ProjectNext]_vars

(***************************************************************************)
(* Properties                                                              *)
(***************************************************************************)
Failed(calls, who) == \E j \in 1..Len(calls) : calls[j] = Call(who, FALSE)

Returned(calls, who) == \E j \in 1..Len(calls) : calls[j] = Call(who, TRUE)

\* the failures analyzeFile is built to absorb
AbsorbedCalls ==
  {"readFile", "parse", "lintText", "calculate"} \cup Range(Detectors)

RootFails == ReaddirFails(fs, ProjectPath)

\* C1: in a run of at least one file with a progress callback, the values
\* passed to the callback are one per analyzed file, the i-th equal to
\* round(100 * i / totalFiles), each within 0..100, never decreasing, and
\* the last one is 100.
C1_ProgressSequence ==
  (cb # "none" /\ pc \in {"loop", "done"} /\ Len(files) >= 1) =>
    /\ Len(progress) = idx
    /\ \A k \in 1..Len(progress) :
         /\ progress[k] = ProgressPctExact(k, Len(files))
         /\ progress[k] \in 0..100
    /\ \A k \in 2..Len(progress) : progress[k - 1] <= progress[k]
    /\ pc = "done" => Len(progress) = Len(files) /\ progress[Len(files)] = 100

\* C2: whichever of the absorbed failures (read, parse, lint, detector,
\* complexity) the files of a run meet, every analyzeFile call yields a
\* result, and the AnalysisResult returned has analyzedFiles = totalFiles =
\* the number of files the scanner listed, with one FileAnalysisResult per
\* listed file, in scan order.
C2_NoFileDropped ==
  /\ \A k \in 1..Len(fileCalls) :
       (\A j \in 1..Len(fileCalls[k]) :
          fileCalls[k][j].ok \/ fileCalls[k][j].who \in AbsorbedCalls)
       => k <= Len(fileAnalyses)
  /\ pc = "done" =>
       /\ result.totalFiles = Len(files)
       /\ result.analyzedFiles = result.totalFiles
       /\ Len(result.fileAnalyses) = Len(files)
       /\ \A k \in 1..Len(files) :
            result.fileAnalyses[k].filePath = PathRelative(dir, files[k])

\* a finished run of two files: the first unreadable; lint, a detector and
\* the complexity calculator fail on the second
C2_Witness ==
  /\ pc = "done"
  /\ Len(files) = 2
  /\ Failed(fileCalls[1], "readFile")
  /\ Failed(fileCalls[2], "lintText")
  /\ Failed(fileCalls[2], "Logic")
  /\ Failed(fileCalls[2], "calculate")
  /\ result.analyzedFiles = 2

\* C3: analyzeFile never throws: every call made so far has returned a
\* FileAnalysisResult, whichever collaborator failed, the counting
\* traversals included.
C3_AnalyzeFileNeverThrows ==
  /\ thrown = Null
  /\ Len(fileAnalyses) = Len(fileCalls)

\* C4: a run whose root directory is missing or unreadable never returns an
\* AnalysisResult, and a run aborts with an error only in that case.
C4_RootFailureAborts ==
  /\ pc = "done" => ~RootFails
  /\ pc = "threw" => RootFails

\* the issue documents as the engine reported them
Stored(docs) ==
  [k \in 1..Len(docs) |-> [f \in DOMAIN docs[k] \ {"project", "analysis"} |-> docs[k][f]]]

\* every failure of the execution is one that analyzeFile absorbs
FileLocalOnly ==
  /\ ~RootFails
  /\ projectFound
  /\ analysis.error # "Write conflict"
  /\ \A k \in 1..Len(fileCalls) : \A j \in 1..Len(fileCalls[k]) :
       fileCalls[k][j].ok \/ fileCalls[k][j].who \in AbsorbedCalls

\* C5: a job execution ends with the Analysis record completed or failed;
\* completed, with the run's issues stored, when every failure was local to
\* a file; failed, with the error message recorded, when the root
\* directory is missing or unreadable.
C5_WorkerOutcome ==
  wpc = "ended" =>
    /\ analysis.status \in {"completed", "failed"}
    /\ FileLocalOnly =>
         /\ analysis.status = "completed"
         /\ Stored(issueDocs) = result.issues
    /\ RootFails => analysis.status = "failed" /\ analysis.error # Null

\* C6: over a root that holds no eligible source file the run returns, with
\* totalFiles, analyzedFiles, averageComplexity and maintainabilityIndex 0
\* and empty issue and file-result lists; it throws nothing and the
\* callback is never invoked.
C6_EmptyProject ==
  (~RootFails /\ pc \in {"loop", "done", "threw"} /\ files = <<>>) =>
    /\ pc = "done"
    /\ thrown = Null
    /\ result.totalFiles = 0
    /\ result.analyzedFiles = 0
    /\ result.metrics.averageComplexity = 0
    /\ result.metrics.maintainabilityIndex = 0
    /\ result.issues = <<>>
    /\ result.fileAnalyses = <<>>
    /\ progress = <<>>

\* a finished run with a callback over a root that holds files, none eligible
C6_Witness ==
  /\ pc = "done"
  /\ files = <<>>
  /\ cb = "ok"
  /\ ~RootFails
  /\ fs.files # {}
  /\ result.totalFiles = 0

\* the place of an issue type in the order of a parsed file's issues
GroupRank(type) ==
  CASE type = "lint"        -> 1
    [] type = "syntax"      -> 2
    [] type = "logic"       -> 3
    [] type = "performance" -> 4
    [] type = "security"    -> 5

\* the issue type each pass contributes
GroupOf ==
  [lintText |-> "lint", Syntax |-> "syntax", Logic |-> "logic",
   Performance |-> "performance", Security |-> "security"]

TypesOf(issues) == [k \in 1..Len(issues) |-> issues[k].type]

\* C7: in the result of a file that parsed, the issues are the lint issues,
\* then those of the Syntax, Logic, Performance and Security detectors, in
\* that order; a lint pass or detector that fails contributes none.
C7_IssueOrder ==
  \A k \in 1..Len(fileAnalyses) :
    Returned(fileCalls[k], "parse") =>
      LET types == TypesOf(fileAnalyses[k].issues)
      IN  /\ \A a, b \in 1..Len(types) :
               a < b => GroupRank(types[a]) <= GroupRank(types[b])
          /\ \A who \in DOMAIN GroupOf :
               Failed(fileCalls[k], who) => GroupOf[who] \notin Range(types)

\* lint and the Logic detector fail, the other three detectors report
C7_Witness ==
  /\ Len(fileAnalyses) = 1
  /\ Failed(fileCalls[1], "lintText")
  /\ Failed(fileCalls[1], "Logic")
  /\ TypesOf(fileAnalyses[1].issues) = <<"syntax", "performance", "security">>

NewlineCount(text) == Cardinality({k \in 1..Len(text) : text[k] = "\n"})

\* C8: a file whose parse fails yields a result with exactly one issue,
\* of type syntax, severity error and code PARSE_ERROR, whose only metric is
\* linesOfCode, the number of pieces the newlines of the text delimit (one
\* more than the number of newlines); neither lint nor a detector runs.
C8_ParseFailure ==
  \A k \in 1..Len(fileCalls) :
    Failed(fileCalls[k], "parse") =>
      /\ fileCalls[k] = <<Call("readFile", TRUE), Call("parse", FALSE)>>
      /\ k <= Len(fileAnalyses)
      /\ LET fa == fileAnalyses[k]
         IN  /\ Len(fa.issues) = 1
             /\ fa.issues[1].type = "syntax"
             /\ fa.issues[1].severity = "error"
             /\ fa.issues[1].code = "PARSE_ERROR"
             /\ DOMAIN fa.metrics = {"linesOfCode"}
             /\ fa.metrics.linesOfCode = NewlineCount(fileTexts[k]) + 1

\* the parse fails on a text of one line ended by a newline
C8_Witness ==
  /\ Len(fileAnalyses) = 1
  /\ Failed(fileCalls[1], "parse")
  /\ fileTexts[1] = TextOf(1, FALSE)
  /\ fileAnalyses[1].metrics.linesOfCode = 2

\* C9: a file that cannot be read yields a result with exactly one issue,
\* of type io and severity error, and linesOfCode 0 as its only metric;
\* nothing but the read is invoked for it, the loop goes on to the next
\* file and the finished run has a result for every file.
C9_UnreadableFile ==
  \A k \in 1..Len(fileCalls) :
    Failed(fileCalls[k], "readFile") =>
      /\ fileCalls[k] = <<Call("readFile", FALSE)>>
      /\ k <= Len(fileAnalyses)
      /\ LET fa == fileAnalyses[k]
         IN  /\ Len(fa.issues) = 1
             /\ fa.issues[1].type = "io"
             /\ fa.issues[1].severity = "error"
             /\ fa.metrics = [linesOfCode |-> 0]
      /\ (k = Len(fileCalls) /\ k < Len(files)) => pc = "loop" /\ idx = k
      /\ pc = "done" => Len(result.fileAnalyses) = Len(files)

\* the first of two files cannot be read, the second is parsed
C9_Witness ==
  /\ pc = "done"
  /\ Len(files) = 2
  /\ fileCalls[1] = <<Call("readFile", FALSE)>>
  /\ Returned(fileCalls[2], "parse")
  /\ "complexity" \in DOMAIN result.fileAnalyses[2].metrics

\* C10: every issue carries the path of its file relative to the analysis
\* root, never an absolute one, the same as the filePath of the
\* FileAnalysisResult that holds it, and the project's issue list is the
\* concatenation of the per-file lists in scan order.
C10_IssuePaths ==
  /\ \A k \in 1..Len(fileAnalyses) :
       LET fa == fileAnalyses[k]
       IN  /\ ~IsAbsolute(fa.filePath)
           /\ dir \o fa.filePath = files[k]
           /\ \A j \in 1..Len(fa.issues) : fa.issues[j].filePath = fa.filePath
  /\ allIssues = ConcatIssues(fileAnalyses)
  /\ pc = "done" =>
       /\ result.issues = ConcatIssues(result.fileAnalyses)
       /\ \A j \in 1..Len(result.issues) : ~IsAbsolute(result.issues[j].filePath)

\* a finished run of two files, one in a subdirectory, each with issues
C10_Witness ==
  /\ pc = "done"
  /\ Len(result.fileAnalyses) = 2
  /\ Len(result.fileAnalyses[1].issues) >= 1
  /\ Len(result.fileAnalyses[2].issues) >= 1
  /\ \E j \in 1..Len(result.issues) : Len(result.issues[j].filePath) = 2

\* the sum of one metric over file results, a missing metric counting 0
RECURSIVE Total(_, _)
Total(fas, field) ==
  IF fas = <<>> THEN 0
  ELSE (IF field \in DOMAIN fas[1].metrics THEN fas[1].metrics[field] ELSE 0)
       + Total(Tail(fas), field)

NumberOf(issues, sev) ==
  Cardinality({j \in 1..Len(issues) : issues[j].severity = sev})

\* C12: in every AnalysisResult each entry of issueBreakdown is the number
\* of issues of that severity over all files, and the three add up to the
\* length of the project's issue list.
C12_IssueBreakdown ==
  pc = "done" =>
    LET b == result.metrics.issueBreakdown
    IN  /\ \A sev \in {"error", "warning", "info"} :
             b[sev] = NumberOf(result.issues, sev)
        /\ b.error + b.warning + b.info = Len(result.issues)

\* a result with issues of the three severities, one of them of a file
\* that could not be read
C12_Witness ==
  /\ pc = "done"
  /\ \A sev \in {"error", "warning", "info"} : result.metrics.issueBreakdown[sev] >= 1
  /\ \E j \in 1..Len(result.issues) : result.issues[j].type = "io"

\* C13: maintainabilityIndex lies in 0..100 (here in hundredths), is 0 when
\* the total of lines is 0, and is the value the function gives for the
\* complexity total, the number of files and the line total alone.
C13_MaintainabilityRange ==
  pc = "done" =>
    LET m == result.metrics
    IN  /\ m.maintainabilityIndex \in 0..10000
        /\ m.totalLinesOfCode = 0 => m.maintainabilityIndex = 0
        /\ m.maintainabilityIndex =
             IF result.fileAnalyses = <<>> THEN 0
             ELSE CalculateMaintainabilityIndex(Total(result.fileAnalyses, "complexity"),
                                                Len(result.fileAnalyses),
                                                m.totalLinesOfCode)

\* files with lines whose complexity drives the raw value below 0
C13_Witness ==
  /\ pc = "done"
  /\ result.metrics.totalLinesOfCode > 0
  /\ result.metrics.averageComplexity >= 100 * MaxComplexity
  /\ result.metrics.maintainabilityIndex = 0

Orders(n) ==
  {p \in [1..n -> 1..n] : \A i, j \in 1..n : i # j => p[i] # p[j]}

Reverse(sq) == [k \in 1..Len(sq) |-> sq[Len(sq) + 1 - k]]

\* C14: calculateMetrics gives the same ProjectMetrics for the file results
\* in any order: in every order for the lists of up to MaxMixed results, in
\* reverse order for the longer ones.
C14_OrderIndependent ==
  pc = "done" =>
    LET fas == result.fileAnalyses
    IN  /\ CalculateMetrics(Reverse(fas)) = result.metrics
        /\ Len(fas) <= MaxMixed =>
             \A p \in Orders(Len(fas)) :
               CalculateMetrics([k \in 1..Len(fas) |-> fas[p[k]]]) = result.metrics

\* three results with three different complexities
C14_Witness ==
  /\ pc = "done"
  /\ Len(result.fileAnalyses) = 3
  /\ "complexity" \notin DOMAIN result.fileAnalyses[1].metrics
  /\ MetricOr0(result.fileAnalyses[2], "complexity") = 1
  /\ MetricOr0(result.fileAnalyses[3], "complexity") = 5
  /\ result.metrics.averageComplexity = 200

\* the directories on the way from the scan root down to a file, the root
\* among them
DirsAbove(f) == {SubSeq(f, 1, j) : j \in Len(dir)..(Len(f) - 1)}

ScanReaches(f) ==
  /\ Len(f) > Len(dir)
  /\ SubSeq(f, 1, Len(dir)) = dir
  /\ \A d \in DirsAbove(f) :
       /\ d \in fs.dirs /\ d \notin fs.denied
       /\ d # dir =>
            d[Len(d)] \notin {N("node_modules", ""), N("dist", ""), N("build", ""),
                              N("", "git"), N("", "next")}

\* C16: the scanner returns, each once, exactly the files with an extension
\* of the allowlist that are reachable from the scan root through readable
\* directories not named node_modules, dist, build, .git or .next; an
\* unreadable directory takes away its own subtree only, and the scan of an
\* unreadable root gives the empty list.
C16_ScanResult ==
  pc \in {"loop", "done", "threw"} =>
    /\ Range(files) =
         {f \in fs.files :
            /\ ScanReaches(f)
            /\ f[Len(f)].ext \in {"mjs", "cjs", "js", "jsx", "ts", "tsx", "vue", "svelte"}}
    /\ \A j, k \in 1..Len(files) : files[j] = files[k] => j = k

\* a scan that returned files and left out a source file of the project
C16_Witness ==
  /\ pc = "done"
  /\ Len(files) >= 1
  /\ \E f \in fs.files : f[Len(f)].ext \in SourceExts /\ f \notin Range(files)

Candidates ==
  << PathJoin(ProjectPath, N("src", "")), PathJoin(ProjectPath, N("frontend", "")),
     PathJoin(ProjectPath, N("backend", "")), PathJoin(ProjectPath, N("server", "")),
     ProjectPath >>

Listing(d) == IF ReaddirFails(fs, d) THEN {} ELSE Range(Readdir(fs, d))

HasSourceFile(d) ==
  \E n \in Listing(d) : n.ext \in {"ts", "js", "tsx", "jsx", "vue", "svelte"}

SignaturesOf(d) == {j \in 1..Len(Indicators) : Indicators[j].clues \cap Listing(d) # {}}

\* C17: detection returns the framework and the directory of the first
\* candidate, in the order src, frontend, backend, server, root, that holds a
\* source file and matches a signature; when no candidate matches a
\* signature it returns the generic framework and the root; the directory is
\* always one of the five candidates.
C17_Detection ==
  pc # "detect" =>
    LET both == {k \in 1..Len(Candidates) :
                   HasSourceFile(Candidates[k]) /\ SignaturesOf(Candidates[k]) # {}}
    IN  /\ dir \in Range(Candidates)
        /\ both # {} =>
             LET k == CHOOSE j \in both : \A l \in both : j <= l
                 s == SignaturesOf(Candidates[k])
             IN  /\ dir = Candidates[k]
                 /\ framework = Indicators[CHOOSE j \in s : \A l \in s : j <= l].fw
        /\ (\A k \in 1..Len(Candidates) : SignaturesOf(Candidates[k]) = {}) =>
             framework = "node" /\ dir = ProjectPath

\* C18: a project never has two Analysis records in status pending or
\* processing at once, and a startAnalysis called while it has one ends
\* with 409, no record created and no job added.
C18_NoDuplicateAnalysis ==
  /\ Cardinality(NonTerminal) <= 1
  /\ \A r \in replies :
       (r.op = "start" /\ r.running) => (r.outcome = "409" /\ r.target = 0)

\* C19: cancelAnalysis by a user who did not trigger the analysis, or of an
\* analysis completed or failed, is rejected and changes neither the record
\* nor the queue; any other call, for a job waiting, active or delayed,
\* succeeds, removes the job and leaves the record failed with the error
\* 'Cancelled by user'.
C19_CancelAnalysis ==
  \A r \in replies :
    (r.op = "cancel" /\ r.doc # Nil) =>
      IF r.user # r.doc.triggeredBy \/ r.doc.status \in {"completed", "failed"}
      THEN /\ r.outcome \in {"403", "400"}
           /\ r.docAfter = r.doc
           /\ r.jobAfter = r.job
      ELSE r.job \in {"waiting", "active", "delayed"} =>
             /\ r.outcome = "ok"
             /\ r.jobAfter = "removed"
             /\ r.docAfter.status = "failed"
             /\ r.docAfter.error = "Cancelled by user"

\* C20: the progress updates of one job are awaited: a file's update has
\* taken effect before the next file's update is issued, and once the
\* completion write is made (status completed, progress 100) no progress
\* write is left to take effect after it, so the record keeps progress 100.
C20_ProgressUpdates ==
  /\ Len(inflight) <= 1
  /\ (wpc = "ended" /\ analysis.status = "completed") =>
       (inflight = <<>> /\ analysis.progress = 100)

\* the enter calls of traverse on a tree
EnterVisits(ast) == SelectSeq(Visits(ast, <<>>), LAMBDA v : v.phase = "enter")

Branches(v) ==
  \/ v.type \in {"IfStatement", "ForStatement", "ForInStatement", "ForOfStatement",
                 "WhileStatement", "DoWhileStatement", "CatchClause",
                 "ConditionalExpression"}
  \/ v.type = "SwitchCase" /\ v.attr = "test"
  \/ v.type = "LogicalExpression" /\ v.attr \in {"&&", "||"}

Encloses(v) == v \in {"IfStatement", "ForStatement", "WhileStatement", "SwitchStatement"}

Enclosing(above) == Len(SelectSeq(above, Encloses))

RECURSIVE Score(_)
Score(visits) ==
  IF visits = <<>> THEN 0
  ELSE (IF Encloses(visits[1].type) THEN 1 + Enclosing(visits[1].above) ELSE 0)
       + (IF visits[1].type = "LogicalExpression" /\ visits[1].attr \in {"&&", "||"}
          THEN 1 ELSE 0)
       + Score(Tail(visits))

At(ev) == {k \in 1..Len(trace) : trace[k].ev = ev}

C24_DurationSpan ==
  pc = "done" =>
    /\ Cardinality(At("start")) = 1 /\ Cardinality(At("end")) = 1
    /\ \A b \in At("start"), f \in At("end") :
         /\ \A k \in At("scan") \cup At("file") \cup At("metrics") : b < k /\ k < f

\* C25: runWithRetry runs its body at most 3 times; another attempt follows
\* only an attempt that failed with a 'Write conflict' error while fewer
\* than 3 attempts were made; it returns normally only after a commit; any
\* other failure, or a conflict on the third attempt, is rethrown after that
\* attempt's transaction was aborted; no committed attempt is followed by
\* another one.
C25_RunWithRetry ==
  txn # Nil =>
    LET n == Len(txn.sessions)
    IN /\ txn.bodies <= 3
       /\ \A k \in 1..(n - 1) :
            /\ k <= Len(txn.failed)
            /\ IsConflict(txn.failed[k].error)
            /\ k < 3
            /\ txn.sessions[k].tx # "committed"
       /\ txn.outcome = "returned" => n >= 1 /\ txn.sessions[n].tx = "committed"
       /\ txn.outcome = "threw" =>
            /\ Len(txn.failed) = n
            /\ txn.thrown = txn.failed[n].error
            /\ ~IsConflict(txn.thrown) \/ n = 3
            /\ txn.sessions[n].tx = "aborted"

\* C29: every session runWithRetry started is ended when it returns or
\* throws, so no session is left open after a call.
C29_SessionsEnded ==
  (txn # Nil /\ txn.pc = "done") =>
    \A k \in 1..Len(txn.sessions) : ~txn.sessions[k].open

\* the analyzed files of the static analysis result that have an issue
WithIssue(res) ==
  {k \in 1..Len(res.fileAnalyses) :
     \E j \in 1..Len(res.issues) : res.issues[j].filePath = res.fileAnalyses[k].filePath}

\* C26: when the static analysis result holds at least one analyzed file
\* with an issue, the analysis worker refactors min(5, number of such
\* files) files and stores one refactored entry for each of them.
C26_AutoRefactor ==
  (worker = "analysisWorker" /\ analysis # Nil /\ analysis.status = "completed"
     /\ WithIssue(result) # {}) =>
    Len(analysis.results.refactored) = Min(5, Cardinality(WithIssue(result)))

\* no clearCache between calls i and j of the log
SameEpoch(log, i, j) == \A k \in i..j : log[k].op = "create"

\* C27: create(p, options) returns the instance the first create for that
\* provider since the last clearCache returned, whatever the later options;
\* the cache holds at most one adapter per provider; spellings of a provider
\* that differ only in letter case share one adapter; create after
\* clearCache constructs a new instance.
C27_AdapterCache ==
  factory # Nil =>
    LET log == factory.log
    IN  \A i \in 1..Len(log), j \in 1..Len(log) :
          (i < j /\ log[i].op = "create" /\ log[j].op = "create") =>
            /\ (SameEpoch(log, i, j) /\ log[i].provider = log[j].provider)
                 => log[j].returned = log[i].returned
            /\ (SameEpoch(log, i, j)
                  /\ ToLowerCase(log[i].provider) = ToLowerCase(log[j].provider))
                 => log[j].returned = log[i].returned
            /\ ~SameEpoch(log, i, j) => log[j].returned.id # log[i].returned.id

\* C28: completed and failed are terminal: once an Analysis record has one
\* of these statuses, no step of a worker, queue retry or service call
\* changes its status.
C28_TerminalStatus ==
  [][\A a \in 1..Len(records) :
       records[a].status \in {"completed", "failed"} =>
         /\ a <= Len(records')
         /\ records'[a].status = records[a].status]_vars

\* C30: after createProject and any addMember calls the member list holds at
\* most one entry per user, an addMember by a caller who is neither the
\* owner nor an owner/maintainer member is rejected and leaves the list
\* unchanged, and the creating owner's entry is never removed.
C30_Members ==
  project # Nil =>
    /\ \A i \in 1..Len(project.members), j \in 1..Len(project.members) :
         project.members[i].user = project.members[j].user => i = j
    /\ (project.last # Nil /\ ~project.last.writer) =>
         /\ project.last.outcome = "AuthorizationError"
         /\ project.members = project.last.before
    /\ \E k \in 1..Len(project.members) : project.members[k].user = project.owner

====
